---- MODULE Spec2Model ----
(***************************************************************************)
(* Tekista: the skill-based assignment engine and its completion paths.    *)
(*                                                                         *)
(* The state is the content of the tables the engine reads and writes:     *)
(*   task             (models.Task: status, assignees)                     *)
(*   profile          (assignment.models.UserSkillProfile, one per user)   *)
(*   assignments      (assignment.models.TaskAssignment, in insert order;  *)
(*                     the row id is the index)                            *)
(* plus, for every request handler in flight, its position (pc), the data  *)
(* it has read so far (local); `last` keeps the answer of the call that    *)
(* finished last.  A handler is cut at the points where it commits, so that*)
(* two handlers interleave the way two requests (or a request and a        *)
(* background job) do on the shared store.                                 *)
(*                                                                         *)
(* Spec          the assignment engine and the completion paths under      *)
(*               concurrency                                               *)
(* SpecFeedback  one handler at a time: assignment, completion, the        *)
(*               performance recomputation, the cleanup job                *)
(* SpecRatio     assignment and completion with the hours the accuracy     *)
(*               ratio is read on                                          *)
(* SpecSkills    the skill ledger (SkillManager, UserSkillProfile.add_skill)*)
(* SpecRecommend the recommendation engine                                 *)
(*                                                                         *)
(* Numbers.  Floats are modelled by exact scaled integers:                 *)
(*   a score in [0,1] is an integer in 0..600 (600 = 1.0), an overall      *)
(*   score is an integer in 0..600000 (600000 = 1.0), hours are integers.  *)
(***************************************************************************)
EXTENDS Integers, Sequences, FiniteSets, TLC

\* ------------------------------------------------------------------ bounds
NumUsers == 2
NumTasks == 2
NumProcs == 2
MaxAssignments == 2
MaxClock == 2

Users == 1..NumUsers
Tasks == 1..NumTasks
Procs == 1..NumProcs
\* a task id that is not in the task table
UnknownTask == NumTasks + 1
\* organization 1 holds every user; organization 2 has no member
Orgs == {1, 2}

\* ------------------------------------------------------- program constants
\* AssignmentMetrics.MIN_SKILL_MATCH = 0.5, in score units (600 = 1.0)
MIN_SKILL_MATCH == 300
\* the hybrid weights, in percent
SKILL_MATCH_WEIGHT == 40
WORKLOAD_WEIGHT == 30
PERFORMANCE_WEIGHT == 20
EXPERIENCE_WEIGHT == 10
\* calculate_workload_score's default max_hours, the only value it is called with
DEFAULT_MAX_HOURS == 40
\* calculate_experience_score's default max_level
DEFAULT_MAX_LEVEL == 10

Strategies == {"skill_match", "workload_balance", "performance", "hybrid"}

\* ---------------------------------------------------------------- helpers
Max(a, b) == IF a >= b THEN a ELSE b
Min(a, b) == IF a <= b THEN a ELSE b

\* str.lower() on the skill names of the model
Lower(s) ==
    CASE s = "Go" -> "go"
      [] s = "GO" -> "go"
      [] s = "go" -> "go"
      [] s = "Kubernetes" -> "kubernetes"
      [] s = "kubernetes" -> "kubernetes"
      [] s = "Python" -> "python"
      [] s = "python" -> "python"
      [] OTHER -> s

\* set(x.lower() for x in seq)
LowerSet(seq) == {Lower(seq[i]) : i \in 1..Len(seq)}

\* every order in which a query without ORDER BY may return the rows of S
Orders(S) ==
    {f \in [1..Cardinality(S) -> S] : \A i, j \in 1..Cardinality(S) : f[i] = f[j] => i = j}

\* --------------------------------------------------------- scoring engine
\* AssignmentMetrics.calculate_skill_match: the fraction of the required
\* skills (lower-cased, as a set) the user holds
calculate_skill_match(user_skills, required_skills) ==
    IF Len(required_skills) = 0 THEN 600
    ELSE IF Len(user_skills) = 0 THEN 0
    ELSE (600 * Cardinality(LowerSet(user_skills) \cap LowerSet(required_skills)))
             \div Cardinality(LowerSet(required_skills))

\* AssignmentMetrics.calculate_workload_score
calculate_workload_score(current_hours, max_hours) ==
    IF current_hours >= max_hours THEN 0
    ELSE 600 - (600 * current_hours) \div max_hours

\* AssignmentMetrics.calculate_experience_score
calculate_experience_score(experience_level, max_level) ==
    IF experience_level <= 0 THEN 0
    ELSE Min((600 * experience_level) \div max_level, 600)

\* AssignmentMetrics.calculate_performance_score
calculate_performance_score(performance) ==
    IF performance <= 0 THEN 0
    ELSE Min((600 * performance) \div 100, 600)

\* AssignmentMetrics.calculate_difficulty_adjustment, in tenths (5, 8, 10).
\* ratio = task_difficulty / user_experience; every profile of this module
\* has user_experience >= 1 (the column default, and the clamp of the
\* profile route).
calculate_difficulty_adjustment(task_difficulty, user_experience) ==
    IF 2 * task_difficulty > 3 * user_experience THEN 5
    ELSE IF 2 * task_difficulty < user_experience THEN 8
    ELSE 10

\* AssignmentMetrics.calculate_completion_time_estimate, in hours.
\* avg * (d / 5.0) * (1.0 / (e / 5.0)) = avg * d / e; the profiles and tasks
\* of this module make the quotient a whole number.
calculate_completion_time_estimate(task_difficulty, user_avg_completion_time, user_experience) ==
    IF user_avg_completion_time <= 0 THEN task_difficulty
    ELSE (user_avg_completion_time * task_difficulty) \div user_experience

\* ------------------------------------------------------------- task fields
\* Task.required_skills and Task.difficulty, as every caller reads them
\* (task.required_skills or [], task.difficulty).  Odd tasks need two skills,
\* even tasks need none.
TaskRequiredSkills(t) == IF t % 2 = 1 THEN <<"Go", "Kubernetes">> ELSE <<>>
DefaultDifficulty(t) == IF t % 2 = 1 THEN 5 ELSE 1

\* ------------------------------------------------------------------- state
VARIABLES
    task,          \* task id -> [status, assignees]   (assignees: a list, as task.assignees)
    profile,       \* user id -> the user's UserSkillProfile row, or NoProfile
    assignments,   \* the task_assignment table, in insert order (id = index)
    clock,         \* the last value datetime.utcnow() returned
    workers,       \* how many handlers the deployment runs at once
    pc,            \* handler -> its position
    local,         \* handler -> what it has read and decided so far
    last,          \* history: the answer of the call that finished last
    workload0,     \* history: every user's workload in the initial state
    decremented,   \* history: the hours the finished workload updates took off, per user
    task_attr,     \* task id -> [difficulty, due_date, priority]
    performance_log,   \* the performance_log table, in insert order
    recomputed_on, \* history: user -> the completed rows the last recomputation saw
    score_before,  \* history: user -> the score before the recomputation that was interrupted
                   \* and has not been redone to the end (-1: there is none)
    skill_store,   \* user -> UserSkillProfile.skills as the skill ledger reads it
    out,           \* the answer of the feedback, ledger or recommendation call that finished last
    role,          \* user id -> the name of the user's role (User.role.name)
    predecessors,  \* task id -> the tasks it depends on (Task.predecessors)
    jobs           \* the background jobs queued so far, in the order they were queued

\* what the assignment engine and the completion paths leave alone
extVars ==
    <<task_attr, performance_log, recomputed_on, score_before, skill_store, out,
      role, predecessors, jobs>>

\* what the feedback, the ledger and the recommendations leave alone as well
orgVars == <<role, predecessors, jobs>>

vars == <<task, profile, assignments, clock, workers, pc, local, last, workload0, decremented,
          task_attr, performance_log, recomputed_on, score_before, skill_store, out,
          role, predecessors, jobs>>

\* Task.difficulty as the scoring reads it
TaskDifficulty(t) == task_attr[t].difficulty

\* a user without a UserSkillProfile row
NoProfile ==
    [exists |-> FALSE, skills |-> <<>>, experience_level |-> 1, performance_score |-> 50,
     avg_completion_time |-> 8, current_workload_hours |-> 0, tasks_completed |-> 0,
     is_available |-> TRUE]

\* the UserSkillProfile rows the initial store may hold
Row(skills, experience_level, performance_score, current_workload_hours) ==
    [exists |-> TRUE, skills |-> skills, experience_level |-> experience_level,
     performance_score |-> performance_score, avg_completion_time |-> 8,
     current_workload_hours |-> current_workload_hours, tasks_completed |-> 0,
     is_available |-> TRUE]
ProfileRows ==
    {Row(<<>>, 1, 50, 0),
     Row(<<"Go">>, 4, 50, 3),
     Row(<<"Go">>, 4, 50, 0),
     Row(<<"GO", "kubernetes", "Python">>, 1, 80, 3),
     Row(<<"GO", "kubernetes", "Python">>, 4, 80, 0)}

\* the rows the store holds when handlers run concurrently
RaceRows == {Row(<<"Go">>, 4, 50, 3)}

\* the hours a completion request may carry; 0 stands for an absent value
\* (None and 0 are both falsy in `if actual_hours`)
HoursGiven == {0, 2}

\* the reasons a reassignment may carry
Reasons == {"Manual reassignment"}

NoScore ==
    [user_id |-> 0, skill_match |-> 0, workload_score |-> 0, performance_score |-> 0,
     overall_score |-> 0, estimated_completion_hours |-> 0]

\* of best_user_data, what the commit of auto_assign_task stores
NoBest == [user_id |-> 0, skill_match |-> 0, estimated_completion_hours |-> 0]
Stored(sd) ==
    [user_id |-> sd.user_id, skill_match |-> sd.skill_match,
     estimated_completion_hours |-> sd.estimated_completion_hours]

\* a PerformanceLog row (of its columns: the user, the assignment it points
\* to, the completed count, the score and its change)
NoLog ==
    [user_id |-> 0, assignment_id |-> 0, tasks_completed |-> 0, performance_score |-> 0,
     score_change |-> 0]

NoLocal ==
    [task_id |-> 0, strategy |-> "none", best |-> NoBest, read_status |-> "none",
     read_len |-> 0, is_reassign |-> FALSE, reassign_of |-> 0, reassigned_at |-> 0,
     reason |-> "none", actual_hours |-> 0, user_id |-> 0, new_workload |-> 0,
     log |-> NoLog, assignment_id |-> 0, actor |-> 0]

\* op: the operation; cause: the branch it returned from; ret: what the
\* service function returned; http: the status the route answered with
NoResult == [op |-> "none", cause |-> "none", ret |-> "none", http |-> 0]
Answer(op, cause, ret, http) == [op |-> op, cause |-> cause, ret |-> ret, http |-> http]

\* organization membership (UserOrganizationRole): one organization holds
\* every user, the other none
OrgMembers(org) == IF org = 1 THEN Users ELSE {}

\* the task columns the feedback and recommendation code reads besides the
\* status: difficulty, due_date (a day number, 0 for None), priority
TaskAttr(difficulty, due_date, priority) ==
    [difficulty |-> difficulty, due_date |-> due_date, priority |-> priority]
DefaultTaskAttr(t) == TaskAttr(DefaultDifficulty(t), 0, "Normal")

\* UserSkillProfile.skills as stored: NULL, a list of names (what the
\* assignment code keeps there) or a dict name -> proficiency (what
\* SkillManager keeps there).  keys is in insertion order; level[i] is the
\* proficiency of keys[i] in thousandths of a point (a list has none).
NoSkills == [kind |-> "null", keys |-> <<>>, level |-> <<>>]

\* op: the call; args: its arguments; ok: whether it succeeded; value: the
\* number, items: the list it returned
NoOut == [op |-> "none", args |-> <<>>, ok |-> TRUE, value |-> 0, items |-> <<>>]

\* nothing recomputed yet
NeverRecomputed == {0}

\* a background job as the broker and the result backend hold it: the task
\* name, its arguments, self.request.retries, the countdown of the last
\* retry (seconds, 0 before the first), and the state (PENDING, RETRY,
\* SUCCESS, FAILURE)
Job(name, user_id, assignment_id) ==
    [name |-> name, user_id |-> user_id, assignment_id |-> assignment_id,
     retries |-> 0, countdown |-> 0, state |-> "PENDING"]

\* the two jobs on_task_completed queues for the row it has completed:
\* update_user_performance_metrics.delay(user_id, assignment.id) and
\* assign_next_task_for_user.delay(user_id)
CompletionJobs(user_id, assignment_id) ==
    <<Job("update_user_performance_metrics", user_id, assignment_id),
      Job("assign_next_task_for_user", user_id, 0)>>

\* the feedback, ledger and recommendation state of a store nothing has
\* been recomputed, logged or recommended in
InitExt ==
    /\ performance_log = <<>>
    /\ recomputed_on = [u \in Users |-> NeverRecomputed]
    /\ score_before = [u \in Users |-> -1]
    /\ skill_store = [u \in Users |-> NoSkills]
    /\ out = NoOut
    /\ role = [u \in Users |-> "Member"]
    /\ predecessors = [t \in Tasks |-> {}]
    /\ jobs = <<>>

Init ==
    /\ task = [t \in Tasks |-> [status |-> "To Do", assignees |-> <<>>]]
    /\ task_attr = [t \in Tasks |-> DefaultTaskAttr(t)]
    /\ InitExt
    /\ \/ workers = 1 /\ profile \in [Users -> ProfileRows \cup {NoProfile}]
       \/ workers = NumProcs /\ profile \in [Users -> RaceRows]
    /\ assignments = <<>>
    /\ clock = 0
    /\ pc = [p \in Procs |-> "idle"]
    /\ local = [p \in Procs |-> NoLocal]
    /\ last = NoResult
    /\ workload0 = [u \in Users |-> profile[u].current_workload_hours]
    /\ decremented = [u \in Users |-> 0]

\* ------------------------------------------------------ AssignmentService
\* AssignmentService._calculate_user_score: the score record of one user for
\* one task under one strategy (the human-readable reason string is left out)
calculate_user_score(u, t, strategy) ==
    LET sp == profile[u] IN
    IF ~sp.exists THEN [NoScore EXCEPT !.user_id = u]
    ELSE
      LET skill_match == calculate_skill_match(sp.skills, TaskRequiredSkills(t))
          workload_score == calculate_workload_score(sp.current_workload_hours, DEFAULT_MAX_HOURS)
          performance_score == calculate_performance_score(sp.performance_score)
          experience_score == calculate_experience_score(sp.experience_level, DEFAULT_MAX_LEVEL)
          difficulty_adjustment ==
              calculate_difficulty_adjustment(TaskDifficulty(t), sp.experience_level)
          estimated_completion ==
              calculate_completion_time_estimate(TaskDifficulty(t), sp.avg_completion_time,
                                                 sp.experience_level)
          overall_score ==
              CASE strategy = "skill_match" -> 1000 * skill_match
                [] strategy = "workload_balance" -> 1000 * workload_score
                [] strategy = "performance" -> 1000 * performance_score
                [] OTHER ->
                     (SKILL_MATCH_WEIGHT * skill_match + WORKLOAD_WEIGHT * workload_score
                      + PERFORMANCE_WEIGHT * performance_score
                      + EXPERIENCE_WEIGHT * experience_score) * difficulty_adjustment
      IN [user_id |-> u, skill_match |-> skill_match, workload_score |-> workload_score,
          performance_score |-> performance_score, overall_score |-> overall_score,
          estimated_completion_hours |-> estimated_completion]

\* auto_assign_task without its skill floor: no score record is dropped
BelowMinSkillMatch_NoFloor(score_data) == FALSE

\* the skill floor of auto_assign_task: `if score_data['skill_match'] <
\* AssignmentMetrics.MIN_SKILL_MATCH: continue`
BelowMinSkillMatch(score_data) == score_data.skill_match < MIN_SKILL_MATCH

\* x put into a list sorted by descending overall_score, behind every entry
\* whose score is not lower
InsertByScore(sorted, x) ==
    LET ahead == {i \in 1..Len(sorted) : sorted[i].overall_score >= x.overall_score}
        k == Cardinality(ahead)
    IN SubSeq(sorted, 1, k) \o <<x>> \o SubSeq(sorted, k + 1, Len(sorted))

\* user_scores.sort(key=lambda x: x['overall_score'], reverse=True): a stable
\* sort, entries of equal score keep the order they were appended in
RECURSIVE SortByOverallScore(_)
SortByOverallScore(user_scores) ==
    IF user_scores = <<>> THEN <<>>
    ELSE InsertByScore(SortByOverallScore(SubSeq(user_scores, 1, Len(user_scores) - 1)),
                       user_scores[Len(user_scores)])

\* the loop of auto_assign_task over the fetched users: the score records of
\* those that pass the skill floor, in fetch order
KeptScores(t, strategy, users) ==
    SelectSeq([i \in 1..Len(users) |-> calculate_user_score(users[i], t, strategy)],
              LAMBDA sd : ~BelowMinSkillMatch(sd))

\* the entry auto_assign_task assigns to: user_scores[0] after the sort
BestUserData(t, strategy, users) == SortByOverallScore(KeptScores(t, strategy, users))[1]

\* TaskAssignment.query.filter_by(task_id=t).order_by(assigned_at.desc()).first():
\* the row inserted last for the task, 0 when there is none
LatestAssignment(t) ==
    LET S == {i \in 1..Len(assignments) : assignments[i].task_id = t}
    IN IF S = {} THEN 0 ELSE CHOOSE i \in S : \A j \in S : j <= i

\* handlers that have decided to insert a row and have not committed yet
PendingInserts == Cardinality({p \in Procs : pc[p] = "aa_commit"})
\* handlers that will read the time once more
PendingTicks == Cardinality({p \in Procs : pc[p] = "ct_status"})

\* what auto_assign_task returns from each of its exits: None from the three
\* early returns, the dictionary of the assignment after the commit
AutoAssignReturn(cause) == IF cause = "assigned" THEN "dict" ELSE "None"

\* assignment.routes.auto_assign_task / reassign_task: `if not result` answers
\* 400, a result answers 201 (auto-assign) or 200 (reassign)
AssignRouteStatus(op, ret) ==
    IF ret = "None" THEN 400 ELSE IF op = "auto_assign" THEN 201 ELSE 200

AssignAnswer(op, cause) ==
    Answer(op, cause, AutoAssignReturn(cause), AssignRouteStatus(op, AutoAssignReturn(cause)))

\* The read half of AssignmentService.auto_assign_task (task fetch, user
\* fetch, scoring, skill floor, sort, choice of the top entry), for a plain
\* auto-assign (is_reassign = FALSE) and for the one reassign_task runs after
\* it has marked, in its session, the latest row of the task.  An early
\* return ends the request without a commit, so the mark is dropped with it.
AssignRead(p, t, strategy, users, is_reassign, reason) ==
    LET current == IF is_reassign THEN LatestAssignment(t) ELSE 0
        op == IF is_reassign THEN "reassign" ELSE "auto_assign"
        fail(cause) ==
            /\ last' = AssignAnswer(op, cause)
            /\ UNCHANGED <<pc, local>>
    IN
    /\ pc[p] = "idle"
    /\ p <= workers
    /\ Len(assignments) + PendingInserts < MaxAssignments
    /\ IF t \notin Tasks THEN fail("task_not_found")
       ELSE IF Len(users) = 0 THEN fail("no_users")
       ELSE IF KeptScores(t, strategy, users) = <<>> THEN fail("no_suitable_users")
       ELSE /\ pc' = [pc EXCEPT ![p] = "aa_commit"]
            /\ local' = [local EXCEPT ![p] =
                   [NoLocal EXCEPT !.task_id = t,
                                   !.strategy = strategy,
                                   !.best = Stored(BestUserData(t, strategy, users)),
                                   !.read_status = task[t].status,
                                   !.read_len = Len(assignments),
                                   !.is_reassign = is_reassign,
                                   !.reassign_of = current,
                                   !.reassigned_at = clock + 1,
                                   !.reason = reason]]
            /\ UNCHANGED last
    /\ UNCHANGED <<task, profile, assignments, clock, workers, workload0, decremented>>
    /\ UNCHANGED extVars

\* POST /assignment/tasks/<id>/auto-assign, up to the commit
AutoAssignRead(p, t, strategy, users) ==
    AssignRead(p, t, strategy, users, FALSE, "none")

\* POST /assignment/tasks/<id>/reassign, up to the commit: reassign_task marks
\* the latest row of the task and runs auto_assign_task with the service's
\* default strategy
ReassignRead(p, t, reason, users) ==
    AssignRead(p, t, "hybrid", users, TRUE, reason)

\* the row auto_assign_task inserts (of the score snapshot the row stores,
\* the skill match and the estimate are kept)
NewAssignment(l) ==
    [task_id |-> l.task_id, assigned_user_id |-> l.best.user_id,
     skill_match_score |-> l.best.skill_match,
     estimated_completion_hours |-> l.best.estimated_completion_hours,
     actual_completion_hours |-> 0, assignment_status |-> "active",
     completed_at |-> 0, reassigned_at |-> 0, reassignment_reason |-> "none"]

\* what reassign_task does to the row it found: the time and the reason
MarkReassigned(a, now, reason) ==
    [a EXCEPT !.reassigned_at = now, !.reassignment_reason = reason]

\* what the commit of auto_assign_task writes to the task: the assignee and
\* status = 'In Progress' (no UPDATE of a status that was read as such)
AssignTask(tk, l) ==
    [tk EXCEPT !.assignees = Append(@, l.best.user_id),
               !.status = IF l.read_status = "In Progress" THEN @ ELSE "In Progress"]

\* The commit of auto_assign_task: the new row, the assignee, the task
\* status, and (for a reassignment) the mark on the superseded row, in one
\* transaction.
AssignCommit(p) ==
    LET l == local[p]
        marked == IF l.reassign_of = 0 THEN assignments
                  ELSE [assignments EXCEPT
                           ![l.reassign_of] = MarkReassigned(@, l.reassigned_at, l.reason)]
    IN
    /\ pc[p] = "aa_commit"
    /\ assignments' = Append(marked, NewAssignment(l))
    /\ task' = [task EXCEPT ![l.task_id] = AssignTask(@, l)]
    /\ pc' = [pc EXCEPT ![p] = "idle"]
    /\ local' = [local EXCEPT ![p] = NoLocal]
    /\ last' = AssignAnswer(IF l.is_reassign THEN "reassign" ELSE "auto_assign", "assigned")
    /\ UNCHANGED <<profile, clock, workers, workload0, decremented>>
    /\ UNCHANGED extVars

\* ------------------------------------------------------------- completion
\* TaskAssignment.mark_completed
mark_completed(a, actual_hours, now) ==
    [a EXCEPT !.assignment_status = "completed",
              !.completed_at = now,
              !.actual_completion_hours = IF actual_hours # 0 THEN actual_hours ELSE @]

\* UserSkillProfile.update_workload
update_workload(sp, hours) == [sp EXCEPT !.current_workload_hours = Max(0, hours)]

\* POST /assignment/assignments/<id>/complete (assignment.routes.complete_assignment):
\* get_or_404, the check that the caller is the assigned user, mark_completed.
\* (The AssignmentStatistics row it refreshes afterwards is not part of this state.)
CompleteAssignment(p, id, actor, actual_hours) ==
    /\ pc[p] = "idle"
    /\ p <= workers
    /\ clock + PendingTicks < MaxClock
    /\ IF id \notin 1..Len(assignments)
       THEN /\ last' = Answer("complete_assignment", "assignment_not_found", "abort", 404)
            /\ UNCHANGED <<assignments, clock>>
       ELSE IF assignments[id].assigned_user_id # actor
       THEN /\ last' = Answer("complete_assignment", "unauthorized", "error", 403)
            /\ UNCHANGED <<assignments, clock>>
       ELSE /\ clock' = clock + 1
            /\ assignments' = [assignments EXCEPT
                   ![id] = mark_completed(@, actual_hours, clock + 1)]
            /\ last' = Answer("complete_assignment", "completed", "success", 200)
    /\ UNCHANGED <<task, profile, workers, pc, local, workload0, decremented>>
    /\ UNCHANGED extVars

\* POST /automation/tasks/<id>/complete (automation.routes.complete_task), up
\* to its first commit: 404, the assignee check, task.status = "Completed"
CompleteTaskStatus(p, t, actor, actual_hours) ==
    LET done(cause, http) ==
            /\ last' = Answer("complete_task", cause, "error", http)
            /\ UNCHANGED <<task, pc, local>>
    IN
    /\ pc[p] = "idle"
    /\ p <= workers
    /\ clock + PendingTicks < MaxClock
    /\ IF t \notin Tasks THEN done("task_not_found", 404)
       ELSE IF /\ Len(task[t].assignees) > 0
               /\ \A i \in 1..Len(task[t].assignees) : task[t].assignees[i] # actor
       THEN done("unauthorized", 403)
       ELSE /\ task' = [task EXCEPT ![t].status = "Completed"]
            /\ pc' = [pc EXCEPT ![p] = "ct_status"]
            /\ local' = [local EXCEPT ![p] =
                   [NoLocal EXCEPT !.task_id = t, !.actual_hours = actual_hours,
                                   !.actor = actor]]
            /\ UNCHANGED last
    /\ UNCHANGED <<profile, assignments, clock, workers, workload0, decremented>>
    /\ UNCHANGED extVars

\* TaskAutomationEngine.on_task_completed, from the lookup of the active
\* assignment to the read of the user's profile: the assignment is marked
\* completed (and committed), then the profile row is read and the new
\* workload computed from it.  `id` is the row filter_by(task_id=...,
\* assignment_status="active").first() returns: any active row of the task,
\* 0 when there is none.
OnTaskCompletedMark(p, id) ==
    LET l == local[p]
        active == {i \in 1..Len(assignments) :
                      /\ assignments[i].task_id = l.task_id
                      /\ assignments[i].assignment_status = "active"}
        u == assignments[id].assigned_user_id
    IN
    /\ pc[p] = "ct_status"
    /\ IF active = {}
       THEN /\ id = 0
            /\ last' = Answer("complete_task", "no_active_assignment", "failure", 200)
            /\ pc' = [pc EXCEPT ![p] = "idle"]
            /\ local' = [local EXCEPT ![p] = NoLocal]
            /\ UNCHANGED <<assignments, clock, jobs>>
       ELSE /\ id \in active
            /\ clock' = clock + 1
            /\ assignments' = [assignments EXCEPT
                   ![id] = mark_completed(@, l.actual_hours, clock + 1)]
            /\ IF profile[u].exists /\ l.actual_hours # 0
               THEN /\ pc' = [pc EXCEPT ![p] = "ct_write"]
                    /\ local' = [local EXCEPT ![p] =
                           [l EXCEPT !.user_id = u,
                                     !.assignment_id = id,
                                     !.new_workload =
                                         Max(0, profile[u].current_workload_hours
                                                - l.actual_hours)]]
                    /\ UNCHANGED <<last, jobs>>
               ELSE /\ pc' = [pc EXCEPT ![p] = "idle"]
                    /\ local' = [local EXCEPT ![p] = NoLocal]
                    /\ jobs' = jobs \o CompletionJobs(u, id)
                    /\ last' = Answer("complete_task", "completed", "success", 200)
    /\ UNCHANGED <<task, profile, workers, workload0, decremented>>
    /\ UNCHANGED <<task_attr, performance_log, recomputed_on, score_before, skill_store, out,
                   role, predecessors>>

\* TaskAutomationEngine.on_task_completed, the rest:
\* user_profile.update_workload(new_workload), its commit, and the two jobs
\* queued for the completed row
OnTaskCompletedWrite(p) ==
    LET l == local[p] IN
    /\ pc[p] = "ct_write"
    /\ profile' = [profile EXCEPT ![l.user_id] = update_workload(@, l.new_workload)]
    /\ decremented' = [decremented EXCEPT ![l.user_id] = @ + l.actual_hours]
    /\ pc' = [pc EXCEPT ![p] = "idle"]
    /\ local' = [local EXCEPT ![p] = NoLocal]
    /\ jobs' = jobs \o CompletionJobs(l.user_id, l.assignment_id)
    /\ last' = Answer("complete_task", "completed", "success", 200)
    /\ UNCHANGED <<task, assignments, clock, workers, workload0>>
    /\ UNCHANGED <<task_attr, performance_log, recomputed_on, score_before, skill_store, out,
                   role, predecessors>>

\* ----------------------------------------------------------- specification
Next ==
    \/ \E p \in Procs, t \in Tasks \cup {UnknownTask}, org \in Orgs, strategy \in Strategies :
         \E users \in Orders(OrgMembers(org)) : AutoAssignRead(p, t, strategy, users)
    \/ \E p \in Procs, t \in Tasks \cup {UnknownTask}, org \in Orgs, reason \in Reasons :
         \E users \in Orders(OrgMembers(org)) : ReassignRead(p, t, reason, users)
    \/ \E p \in Procs : AssignCommit(p)
    \/ \E p \in Procs, id \in 1..(MaxAssignments + 1), actor \in Users, h \in HoursGiven :
         CompleteAssignment(p, id, actor, h)
    \/ \E p \in Procs, t \in Tasks \cup {UnknownTask}, actor \in Users, h \in HoursGiven :
         CompleteTaskStatus(p, t, actor, h)
    \/ \E p \in Procs, id \in 0..MaxAssignments : OnTaskCompletedMark(p, id)
    \/ \E p \in Procs : OnTaskCompletedWrite(p)

Spec == Init /\ [][Next]_vars

\* ---------------------------------------------------- PerformanceService
\* cleanup_old_assignments: timedelta(days=90); the clock counts days
CLEANUP_DAYS == 90

\* what is left of a row the cleanup job has deleted (the id is not reused)
DeletedRow ==
    [task_id |-> 0, assigned_user_id |-> 0, skill_match_score |-> 0,
     estimated_completion_hours |-> 0, actual_completion_hours |-> 0,
     assignment_status |-> "deleted", completed_at |-> 0, reassigned_at |-> 0,
     reassignment_reason |-> "none"]

\* the ids of the rows table tbl holds
LiveRows(tbl) == {i \in 1..Len(tbl) : tbl[i].assignment_status # "deleted"}

\* TaskAssignment.query.filter_by(assigned_user_id=u, assignment_status='completed').all()
CompletedRows(tbl, u) ==
    {i \in LiveRows(tbl) : /\ tbl[i].assigned_user_id = u
                           /\ tbl[i].assignment_status = "completed"}

\* sum(f[i] for i in S)
RECURSIVE SumOver(_, _)
SumOver(S, f) ==
    IF S = {} THEN 0
    ELSE LET i == CHOOSE x \in S : TRUE IN f[i] + SumOver(S \ {i}, f)

\* the completed rows of u that have both a completion time and a task with
\* a due date: the rows whose times the service compares.  completed_at is a
\* datetime and Task.due_date a date, so `completed_at <= due_date` and
\* `due_date - completed_at` both raise TypeError.
DatedRows(tbl, u) ==
    {i \in CompletedRows(tbl, u) :
        tbl[i].completed_at # 0 /\ task_attr[tbl[i].task_id].due_date # 0}

\* PerformanceService.calculate_on_time_ratio, in score units (600 = 1.0):
\* 0.5 without completed rows, 0.5 from the except branch when a comparison
\* raises, on_time_count / len(assignments) with on_time_count = 0 otherwise
calculate_on_time_ratio(tbl, u) ==
    IF CompletedRows(tbl, u) = {} THEN 300
    ELSE IF DatedRows(tbl, u) # {} THEN 300
    ELSE 0 \div Cardinality(CompletedRows(tbl, u))

\* PerformanceService.calculate_skill_accuracy: the mean skill_match_score of
\* the completed rows
calculate_skill_accuracy(tbl, u) ==
    LET rows == CompletedRows(tbl, u) IN
    IF rows = {} THEN 300
    ELSE SumOver(rows, [i \in rows |-> tbl[i].skill_match_score]) \div Cardinality(rows)

\* PerformanceService.calculate_difficulty_factor: the mean of difficulty / 10
\* over the completed rows whose task has a difficulty
calculate_difficulty_factor(tbl, u) ==
    LET rows == CompletedRows(tbl, u)
        rated == {i \in rows : TaskDifficulty(tbl[i].task_id) # 0}
    IN IF rows = {} THEN 300
       ELSE IF rated = {} THEN 300
       ELSE SumOver(rated, [i \in rated |-> 60 * TaskDifficulty(tbl[i].task_id)])
                \div Cardinality(rated)

\* (on_time_ratio * 0.5 + skill_accuracy * 0.3 + difficulty_factor * 0.2) * 100,
\* in points; the stores of this module make the quotient a whole number
WeightedScore(on_time_ratio, skill_accuracy, difficulty_factor) ==
    (50 * on_time_ratio + 30 * skill_accuracy + 20 * difficulty_factor) \div 600

\* a score returned as computed
ClampScore_None(score) == score

\* max(0, min(100, score))
ClampScore(score) == Max(0, Min(100, score))

\* PerformanceService.calculate_performance_score
PerformanceScore(on_time_ratio, skill_accuracy, difficulty_factor) ==
    ClampScore(WeightedScore(on_time_ratio, skill_accuracy, difficulty_factor))

\* the score update_user_performance computes for u on table tbl
NewPerformanceScore(tbl, u) ==
    PerformanceScore(calculate_on_time_ratio(tbl, u), calculate_skill_accuracy(tbl, u),
                     calculate_difficulty_factor(tbl, u))

\* total_hours / tasks_completed if tasks_completed > 0 else 0
AvgCompletionTime(tbl, u) ==
    LET rows == CompletedRows(tbl, u) IN
    IF rows = {} THEN 0
    ELSE SumOver(rows, [i \in rows |-> tbl[i].actual_completion_hours]) \div Cardinality(rows)

\* update_user_performance leaves through its except branch, before it has
\* written anything: the loop over the speeds calls calculate_completion_speed
\* on the first dated row, and `deadline - completion_time` raises
UpdateRaises(tbl, u) == DatedRows(tbl, u) # {}

\* a profile update that blends the new score into the old one
UpdatedProfile_Blend(sp, tbl, u) ==
    [sp EXCEPT !.performance_score = (6 * @ + 4 * NewPerformanceScore(tbl, u)) \div 10,
               !.tasks_completed = Cardinality(CompletedRows(tbl, u)),
               !.avg_completion_time = AvgCompletionTime(tbl, u)]

\* the profile after the first commit of update_user_performance
UpdatedProfile(sp, tbl, u) ==
    [sp EXCEPT !.performance_score = NewPerformanceScore(tbl, u),
               !.tasks_completed = Cardinality(CompletedRows(tbl, u)),
               !.avg_completion_time = AvgCompletionTime(tbl, u)]

\* the PerformanceLog entry update_user_performance builds after that commit
LogEntry(sp, tbl, u, assignment_id) ==
    [user_id |-> u, assignment_id |-> assignment_id,
     tasks_completed |-> Cardinality(CompletedRows(tbl, u)),
     performance_score |-> NewPerformanceScore(tbl, u),
     score_change |-> NewPerformanceScore(tbl, u) - sp.performance_score]

Out(op, ok, value) == [NoOut EXCEPT !.op = op, !.ok = ok, !.value = value]

\* a handler that stamps a row may read the time: at most MaxClock readings
\* before the days pass, and at most MaxClock + 1 days after
WorkflowClockRoom ==
    IF clock <= MaxClock THEN clock < MaxClock ELSE clock < CLEANUP_DAYS + MaxClock + 2

\* TaskWorkflow.complete_task(task_id, user_id), up to the first commit of
\* PerformanceService.update_user_performance.  `id` is the row
\* filter_by(task_id=..., assigned_user_id=...).first() returns: any row of
\* the pair, whatever its status; 0 when there is none.  The row is stamped
\* completed (commit), the task set to "Completed" (commit),
\* SkillManager.update_skills_from_completed_task runs (it persists nothing:
\* on a non-empty skills column increment_skill either raises on a list or
\* changes a dict in place, which no commit writes), then
\* update_user_performance(user_id, task_id) recomputes the metrics and
\* commits the profile.  The task id is handed over as assignment_id.
WorkflowCompleteTask(p, t, u, id) ==
    LET rows == {i \in LiveRows(assignments) :
                    assignments[i].task_id = t /\ assignments[i].assigned_user_id = u}
        marked == [assignments EXCEPT ![id].assignment_status = "completed",
                                      ![id].completed_at = clock + 1]
    IN
    /\ pc[p] = "idle"
    /\ p <= workers
    /\ WorkflowClockRoom
    /\ IF rows = {}
       THEN /\ id = 0
            /\ out' = Out("complete_task", FALSE, 0)
            /\ UNCHANGED <<task, profile, assignments, clock, pc, local, recomputed_on,
                           score_before>>
       ELSE /\ id \in rows
            /\ assignments' = marked
            /\ clock' = clock + 1
            /\ task' = [task EXCEPT ![t].status = "Completed"]
            /\ IF ~profile[u].exists \/ UpdateRaises(marked, u)
               THEN /\ out' = Out("complete_task", TRUE, 0)
                    /\ UNCHANGED <<profile, pc, local, recomputed_on, score_before>>
               ELSE /\ profile' = [profile EXCEPT ![u] = UpdatedProfile(@, marked, u)]
                    /\ pc' = [pc EXCEPT ![p] = "pf_log"]
                    /\ local' = [local EXCEPT ![p] =
                           [NoLocal EXCEPT !.task_id = t, !.user_id = u,
                                           !.log = LogEntry(profile[u], marked, u, t)]]
                    /\ recomputed_on' = [recomputed_on EXCEPT ![u] = CompletedRows(marked, u)]
                    /\ score_before' = [score_before EXCEPT ![u] =
                           IF CompletedRows(marked, u) = recomputed_on[u] THEN @ ELSE -1]
                    /\ UNCHANGED out
    /\ UNCHANGED <<workers, last, workload0, decremented, task_attr, performance_log,
                   skill_store>>
    /\ UNCHANGED orgVars

\* the score the profile held before the recomputation that built entry
OldScore(entry) == entry.performance_score - entry.score_change

\* update_user_performance, from db.session.add(log_entry) to the end of
\* complete_task.  performance_log.assignment_id is a foreign key to
\* task_assignment.id and holds a task id: when no row has that id, a store
\* that enforces foreign keys rejects the insert (the except branches answer
\* with a failure, the profile stays committed), a store that does not
\* accepts it.
PerfAppendLog(p, accepted) ==
    LET l == local[p]
        u == l.user_id
    IN
    /\ pc[p] = "pf_log"
    /\ l.log.assignment_id \in LiveRows(assignments) => accepted
    /\ IF accepted
       THEN /\ performance_log' = Append(performance_log, l.log)
            /\ score_before' = [score_before EXCEPT ![u] = -1]
            /\ out' = Out("complete_task", TRUE, l.log.performance_score)
       ELSE /\ out' = Out("complete_task", FALSE, 0)
            /\ UNCHANGED <<performance_log, score_before>>
    /\ pc' = [pc EXCEPT ![p] = "idle"]
    /\ local' = [local EXCEPT ![p] = NoLocal]
    /\ UNCHANGED <<task, profile, assignments, clock, workers, last, workload0, decremented,
                   task_attr, recomputed_on, skill_store>>
    /\ UNCHANGED orgVars

\* the process that runs update_user_performance dies between its two
\* commits: the profile is written, the log entry is not
PerfInterrupt(p) ==
    LET l == local[p]
        u == l.user_id
    IN
    /\ pc[p] = "pf_log"
    /\ score_before' = [score_before EXCEPT ![u] = IF @ >= 0 THEN @ ELSE OldScore(l.log)]
    /\ pc' = [pc EXCEPT ![p] = "idle"]
    /\ local' = [local EXCEPT ![p] = NoLocal]
    /\ out' = Out("interrupted", FALSE, 0)
    /\ UNCHANGED <<task, profile, assignments, clock, workers, last, workload0, decremented,
                   task_attr, performance_log, recomputed_on, skill_store>>
    /\ UNCHANGED orgVars

\* celery_app.update_user_performance_metrics(user_id, assignment_id), the job
\* on_task_completed queues for the row it has completed.  A missing row
\* answers with a failure.  Otherwise `assignment.completed_at <=
\* assignment.task.due_date` compares a datetime with a date (or None) and
\* raises before the job has written anything; the except branch re-queues
\* the job, which raises again.
update_user_performance_metrics(p, u, id) ==
    /\ pc[p] = "idle"
    /\ p <= workers
    /\ out' = Out("update_user_performance_metrics", FALSE, 0)
    /\ UNCHANGED <<task, profile, assignments, clock, workers, pc, local, last, workload0,
                   decremented, task_attr, performance_log, recomputed_on, score_before,
                   skill_store>>
    /\ UNCHANGED orgVars

\* the rows cleanup_old_assignments selects: completed, and completed before
\* utcnow() - 90 days
OldCompleted(tbl, now) ==
    {i \in LiveRows(tbl) : /\ tbl[i].assignment_status = "completed"
                           /\ tbl[i].completed_at < now - CLEANUP_DAYS}

\* celery_app.cleanup_old_assignments: one DELETE.  When a performance_log
\* row points to a selected row, a store that enforces foreign keys rejects
\* the statement (nothing is deleted), a store that does not runs it.
cleanup_old_assignments(p, accepted) ==
    LET old == OldCompleted(assignments, clock)
        referenced == \E k \in 1..Len(performance_log) : performance_log[k].assignment_id \in old
    IN
    /\ pc[p] = "idle"
    /\ p <= workers
    /\ ~referenced => accepted
    /\ IF accepted
       THEN /\ assignments' = [i \in 1..Len(assignments) |->
                                 IF i \in old THEN DeletedRow ELSE assignments[i]]
            /\ out' = Out("cleanup_old_assignments", TRUE, Cardinality(old))
       ELSE /\ out' = Out("cleanup_old_assignments", FALSE, 0)
            /\ UNCHANGED assignments
    /\ UNCHANGED <<task, profile, clock, workers, pc, local, last, workload0, decremented,
                   task_attr, performance_log, recomputed_on, score_before, skill_store>>
    /\ UNCHANGED orgVars

\* more than the retention period passes without a request
TimePasses ==
    /\ clock <= MaxClock
    /\ \A p \in Procs : pc[p] = "idle"
    /\ clock' = clock + CLEANUP_DAYS + 1
    /\ UNCHANGED <<task, profile, assignments, workers, pc, local, last, workload0, decremented,
                   task_attr, performance_log, recomputed_on, score_before, skill_store, out>>
    /\ UNCHANGED orgVars

\* the rows and tasks the feedback store starts with: one skilled user
\* profile; tasks of ordinary difficulty with and without a due date, and one
\* whose difficulty is beyond the scale (the task form does not bound it)
FeedbackRows == {Row(<<"GO", "kubernetes", "Python">>, 1, 80, 3)}
FeedbackTaskAttrs ==
    {TaskAttr(5, 0, "Normal"), TaskAttr(5, 1, "Normal"), TaskAttr(40, 0, "Normal")}

InitFeedback ==
    /\ task = [t \in Tasks |-> [status |-> "To Do", assignees |-> <<>>]]
    /\ task_attr \in [Tasks -> FeedbackTaskAttrs]
    /\ workers = 1
    /\ profile \in [Users -> FeedbackRows]
    /\ assignments = <<>>
    /\ clock = 0
    /\ pc = [p \in Procs |-> "idle"]
    /\ local = [p \in Procs |-> NoLocal]
    /\ last = NoResult
    /\ workload0 = [u \in Users |-> profile[u].current_workload_hours]
    /\ decremented = [u \in Users |-> 0]
    /\ InitExt

NextFeedback ==
    \/ \E p \in Procs, t \in Tasks : \E users \in Orders(Users) :
         AutoAssignRead(p, t, "hybrid", users)
    \/ \E p \in Procs : AssignCommit(p)
    \/ \E p \in Procs, id \in LiveRows(assignments), actor \in Users, h \in HoursGiven :
         CompleteAssignment(p, id, actor, h)
    \/ \E p \in Procs, t \in Tasks, u \in Users, id \in 0..MaxAssignments :
         WorkflowCompleteTask(p, t, u, id)
    \/ \E p \in Procs, accepted \in BOOLEAN : PerfAppendLog(p, accepted)
    \/ \E p \in Procs : PerfInterrupt(p)
    \/ \E p \in Procs, u \in Users, id \in 1..MaxAssignments :
         update_user_performance_metrics(p, u, id)
    \/ \E p \in Procs, accepted \in BOOLEAN : cleanup_old_assignments(p, accepted)
    \/ TimePasses

SpecFeedback == InitFeedback /\ [][NextFeedback]_vars

\* ------------------------------------------------------------------ claims
Ids == 1..Len(assignments)

\* the active rows of a task
ActiveAssignmentsOf(t) ==
    {i \in Ids : assignments[i].task_id = t /\ assignments[i].assignment_status = "active"}

\* C1: in every reachable state a task has at most one TaskAssignment row
\* whose assignment_status is "active", whatever auto-assign, reassign and
\* completion calls have run.
C1_AtMostOneActive == \A t \in Tasks : Cardinality(ActiveAssignmentsOf(t)) <= 1

\* C2: when an auto-assign attempt for a task commits while another attempt
\* for the same task, begun before that commit, is still in flight, the
\* attempt in flight does not create an assignment of its own: of two
\* concurrent attempts for one task at most one succeeds.
C2_ConcurrentAttemptsOneSucceeds ==
    [][\A p \in Procs :
          (/\ pc[p] = "aa_commit"
           /\ pc'[p] = "idle"
           /\ \E i \in Ids : /\ i > local[p].read_len
                             /\ assignments[i].task_id = local[p].task_id)
          => Len(assignments') = Len(assignments)]_vars

\* C3: under every strategy, the user of every assignment auto-assign has
\* created, and of every choice it has made and not yet committed, has a
\* skill match with the task of at least MIN_SKILL_MATCH (0.5).
C3_NeverBelowMinSkillMatch ==
    /\ \A i \in Ids :
          /\ assignments[i].skill_match_score >= MIN_SKILL_MATCH
          /\ calculate_skill_match(profile[assignments[i].assigned_user_id].skills,
                                   TaskRequiredSkills(assignments[i].task_id))
                 >= MIN_SKILL_MATCH
    /\ \A p \in Procs :
          pc[p] = "aa_commit" =>
              /\ local[p].best.skill_match >= MIN_SKILL_MATCH
              /\ calculate_skill_match(profile[local[p].best.user_id].skills,
                                       TaskRequiredSkills(local[p].task_id))
                     >= MIN_SKILL_MATCH

\* C3, the boundary: an assignment exists whose user matches exactly half of
\* the task's required skills (skill match exactly 0.5), so a match of
\* exactly 0.5 is not filtered.
C3_ExactlyMinSkillMatchAssigned ==
    \E i \in Ids :
        /\ assignments[i].skill_match_score = MIN_SKILL_MATCH
        /\ calculate_skill_match(profile[assignments[i].assigned_user_id].skills,
                                 TaskRequiredSkills(assignments[i].task_id))
               = MIN_SKILL_MATCH

\* the users of the organization that pass the skill floor for task t
Candidates(t, strategy) ==
    {u \in Users : calculate_user_score(u, t, strategy).skill_match >= MIN_SKILL_MATCH}

\* the candidate the tie-break rule names: highest overall score, then lowest
\* current workload, then lowest user id
RuleChoice(t, strategy) ==
    LET score(u) == calculate_user_score(u, t, strategy).overall_score
        hours(u) == profile[u].current_workload_hours
        top == {u \in Candidates(t, strategy) :
                   \A v \in Candidates(t, strategy) : score(v) <= score(u)}
        least == {u \in top : \A v \in top : hours(u) <= hours(v)}
    IN CHOOSE u \in least : \A v \in least : u <= v

\* C4: the user auto-assign chooses is the qualifying candidate with the
\* highest overall score; among equal scores the one with the lowest
\* current_workload_hours, then the one with the lowest id: the choice does
\* not depend on the order in which the users were fetched.
C4_ChoiceFollowsTieBreakRule ==
    [][\A p \in Procs :
          (pc[p] = "idle" /\ pc'[p] = "aa_commit")
          => local'[p].best.user_id = RuleChoice(local'[p].task_id, local'[p].strategy)]_vars

\* C5: the step in which auto-assign succeeds for user W appends an active
\* assignment for W, leaves the task in a status other than the open one
\* ("To Do"), and raises W's current_workload_hours by exactly the
\* assignment's estimated_completion_hours.
C5_AssignRaisesWorkload ==
    [][Len(assignments') = Len(assignments) + 1
       => LET a == assignments'[Len(assignments')]
              w == a.assigned_user_id
          IN /\ a.assignment_status = "active"
             /\ task'[a.task_id].status # "To Do"
             /\ profile'[w].current_workload_hours
                    = profile[w].current_workload_hours + a.estimated_completion_hours]_vars

\* C6: auto-assign of an unknown task and auto-assign with no qualifying
\* candidate both leave tasks, profiles and assignments as they were; the
\* second is answered with a result that is not an error (a status below 400)
\* and differs from what an unknown task is answered with.
C6_NoSuitableWorkerIsNotAnError ==
    /\ [][(/\ last' # last
           /\ last'.op = "auto_assign"
           /\ last'.cause \in {"task_not_found", "no_suitable_users"})
          => UNCHANGED <<task, profile, assignments>>]_vars
    /\ []((last.op = "auto_assign" /\ last.cause = "no_suitable_users")
          => /\ last.http < 400
             /\ <<last.ret, last.http>>
                    # <<AssignAnswer("auto_assign", "task_not_found").ret,
                        AssignAnswer("auto_assign", "task_not_found").http>>)

\* C7: when a reassignment of a task whose latest assignment is active
\* succeeds, that assignment is no longer active afterwards and carries the
\* reason and the time; the new assignment is one more row and the old one
\* is still there.
C7_ReassignSupersedesActive ==
    [][\A p \in Procs :
          (/\ pc[p] = "aa_commit"
           /\ pc'[p] = "idle"
           /\ local[p].is_reassign
           /\ local[p].reassign_of # 0
           /\ assignments[local[p].reassign_of].assignment_status = "active")
          => LET old == assignments'[local[p].reassign_of] IN
             /\ Len(assignments') = Len(assignments) + 1
             /\ old.task_id = local[p].task_id
             /\ old.assignment_status # "active"
             /\ old.reassignment_reason = local[p].reason
             /\ old.reassigned_at # 0]_vars

\* C8: a completion request for an assignment id that does not exist is
\* answered 404, and no step changes the assignment_status, completed_at or
\* actual_completion_hours of an assignment that is not active: completing
\* it again is refused.
C8_NonActiveCompletionRefused ==
    /\ [][\A i \in Ids :
             assignments[i].assignment_status # "active"
             => /\ assignments'[i].assignment_status = assignments[i].assignment_status
                /\ assignments'[i].completed_at = assignments[i].completed_at
                /\ assignments'[i].actual_completion_hours
                       = assignments[i].actual_completion_hours]_vars
    /\ []((last.op = "complete_assignment" /\ last.cause = "assignment_not_found")
          => last.http = 404)

\* C9: no workload is ever negative, and a completion that is given h hours
\* for an active assignment leaves the assigned user's current_workload_hours
\* at max(0, previous - h): in the step of complete_assignment that completes
\* the row, and in the step of on_task_completed that writes the workload.
C9_CompletionFreesWorkload ==
    /\ [](\A u \in Users : profile[u].current_workload_hours >= 0)
    /\ [][/\ \A i \in Ids :
               (/\ assignments[i].assignment_status = "active"
                /\ assignments'[i].assignment_status = "completed"
                /\ pc' = pc)
               => LET u == assignments[i].assigned_user_id
                      h == assignments'[i].actual_completion_hours
                  IN profile'[u].current_workload_hours
                         = Max(0, profile[u].current_workload_hours - h)
          /\ \A p \in Procs :
               (pc[p] = "ct_write" /\ pc'[p] = "idle")
               => profile'[local[p].user_id].current_workload_hours
                      = Max(0, profile[local[p].user_id].current_workload_hours
                               - local[p].actual_hours)]_vars

\* C10: no workload update is lost: whenever no update is between its read
\* and its write, every user's current_workload_hours is the initial value
\* less all the hours the finished updates took off, floored at 0, under
\* every interleaving of the handlers.
C10_NoLostWorkloadUpdate ==
    (\A p \in Procs : pc[p] # "ct_write")
    => \A u \in Users :
          profile[u].current_workload_hours = Max(0, workload0[u] - decremented[u])

\* --------------------------------------------------------- accuracy ratio
\* x / y as a fraction with a positive denominator (y # 0)
Frac(x, y) == IF y < 0 THEN [num |-> 0 - x, den |-> 0 - y] ELSE [num |-> x, den |-> y]
Zero == [num |-> 0, den |-> 1]
FracEq(a, b) == a.num * b.den = b.num * a.den
FracLeq(a, b) == a.num * b.den <= b.num * a.den
FracMin(a, b) == IF FracLeq(a, b) THEN a ELSE b

\* TaskAssignment.get_accuracy_ratio on the two columns it reads; 0 stands
\* for None and 0 alike (`not x`).  The quotients are exact here (the
\* rounding of the float division is not modelled).
get_accuracy_ratio(actual, estimated) ==
    IF actual = 0 \/ estimated = 0 THEN Zero
    ELSE IF FracLeq(Frac(actual, estimated), Frac(1, 1)) THEN Frac(actual, estimated)
    ELSE Frac(estimated, actual)

\* the hours a completion request may carry where the ratio is looked at:
\* absent, below, at and above the estimates (2 and 10), and a negative
\* number (the route hands data.get('actual_hours') on as it comes)
RatioHours == {-2, 0, 2, 10}
RatioRows == {Row(<<"GO", "kubernetes", "Python">>, 4, 80, 0)}

InitRatio ==
    /\ task = [t \in Tasks |-> [status |-> "To Do", assignees |-> <<>>]]
    /\ task_attr = [t \in Tasks |-> DefaultTaskAttr(t)]
    /\ workers = 1
    /\ profile \in [Users -> RatioRows]
    /\ assignments = <<>>
    /\ clock = 0
    /\ pc = [p \in Procs |-> "idle"]
    /\ local = [p \in Procs |-> NoLocal]
    /\ last = NoResult
    /\ workload0 = [u \in Users |-> profile[u].current_workload_hours]
    /\ decremented = [u \in Users |-> 0]
    /\ InitExt

NextRatio ==
    \/ \E p \in Procs, t \in Tasks, strategy \in Strategies : \E users \in Orders(Users) :
         AutoAssignRead(p, t, strategy, users)
    \/ \E p \in Procs : AssignCommit(p)
    \/ \E p \in Procs, id \in 1..MaxAssignments, actor \in Users, h \in RatioHours :
         CompleteAssignment(p, id, actor, h)

SpecRatio == InitRatio /\ [][NextRatio]_vars

\* ------------------------------------------------------------ skill ledger
\* Proficiencies are in thousandths of a point (100000 = 100.0).
SkillNames == {"Go", "go", "Python"}
\* the proficiency POST /skills may carry (default 1.0)
Proficiencies == {1000, 50000}
\* the increment POST /skills/<name>/increment may carry (default 1.0); the
\* route does not bound it
Increments == {0, 1000, 110000}

ListSkills(names) == [kind |-> "list", keys |-> names, level |-> [i \in 1..Len(names) |-> 0]]
DictSkills(names, levels) == [kind |-> "dict", keys |-> names, level |-> levels]

\* `not profile.skills`: NULL, [] and {} are falsy
Falsy(st) == st.kind = "null" \/ Len(st.keys) = 0

\* d.get(name, default)
DictGet(st, name, default) ==
    IF \E i \in 1..Len(st.keys) : st.keys[i] = name
    THEN st.level[CHOOSE i \in 1..Len(st.keys) : st.keys[i] = name]
    ELSE default

\* d[name] = v: a present key keeps its place, a new key goes last; keys are
\* compared as they are written
DictSet(st, name, v) ==
    IF \E i \in 1..Len(st.keys) : st.keys[i] = name
    THEN [st EXCEPT !.level[CHOOSE i \in 1..Len(st.keys) : st.keys[i] = name] = v]
    ELSE [st EXCEPT !.keys = Append(@, name), !.level = Append(@, v)]

\* a commit that writes the value the column holds in memory, assigned or not
Committed_Tracked(loaded, assigned, current) == current

\* what db.session.commit() leaves in the skills column.  The column is a
\* plain JSON column (no mutation tracking): the unit of work writes it when
\* the attribute was assigned in the request, and then writes the object as
\* it is at the flush; a dict or list changed in place, without an
\* assignment, is not written.
Committed(loaded, assigned, current) == IF assigned THEN current ELSE loaded

\* increment_skill's new value: current + increment, and above 100 the part
\* beyond 100 taken at a tenth
IncrementedValue(current, increment) ==
    IF current + increment > 100000
    THEN 100000 + (current + increment - 100000) \div 10
    ELSE current + increment

OutCall(op, args, ok, value) ==
    [NoOut EXCEPT !.op = op, !.args = args, !.ok = ok, !.value = value]

\* SkillManager.add_skill (POST /skills): `if not profile.skills:
\* profile.skills = {}`, then profile.skills[skill_name] = max(proficiency,
\* profile.skills.get(skill_name, 0)), commit.  On a non-empty list .get
\* raises and the except branch returns False.
add_skill(u, skill_name, proficiency) ==
    LET loaded == skill_store[u]
        assigned == Falsy(loaded)
        skills == IF assigned THEN DictSkills(<<>>, <<>>) ELSE loaded
    IN
    /\ IF skills.kind = "list"
       THEN /\ out' = OutCall("add_skill", <<u, skill_name, proficiency>>, FALSE, 0)
            /\ UNCHANGED skill_store
       ELSE /\ skill_store' = [skill_store EXCEPT ![u] =
                   Committed(loaded, assigned,
                             DictSet(skills, skill_name,
                                     Max(proficiency, DictGet(skills, skill_name, 0))))]
            /\ out' = OutCall("add_skill", <<u, skill_name, proficiency>>, TRUE, 0)
    /\ UNCHANGED <<task, profile, assignments, clock, workers, pc, local, last, workload0,
                   decremented, task_attr, performance_log, recomputed_on, score_before>>
    /\ UNCHANGED orgVars

\* SkillManager.increment_skill (POST /skills/<name>/increment): returns the
\* new value it computed, 0.0 from the except branch
increment_skill(u, skill_name, increment) ==
    LET loaded == skill_store[u]
        assigned == Falsy(loaded)
        skills == IF assigned THEN DictSkills(<<>>, <<>>) ELSE loaded
        new_value == IncrementedValue(DictGet(skills, skill_name, 0), increment)
    IN
    /\ IF skills.kind = "list"
       THEN /\ out' = OutCall("increment_skill", <<u, skill_name, increment>>, FALSE, 0)
            /\ UNCHANGED skill_store
       ELSE /\ skill_store' = [skill_store EXCEPT ![u] =
                   Committed(loaded, assigned, DictSet(skills, skill_name, new_value))]
            /\ out' = OutCall("increment_skill", <<u, skill_name, increment>>, TRUE, new_value)
    /\ UNCHANGED <<task, profile, assignments, clock, workers, pc, local, last, workload0,
                   decremented, task_attr, performance_log, recomputed_on, score_before>>
    /\ UNCHANGED orgVars

\* UserSkillProfile.add_skill (POST /assignment/profile/skills): `if not
\* self.skills: self.skills = []`, then the name is appended and committed
\* when no element equals it in lower case.  Iterating a dict yields its
\* keys; .append on a dict raises, and nothing is committed.
profile_add_skill(u, skill) ==
    LET loaded == skill_store[u]
        assigned == Falsy(loaded)
        skills == IF assigned THEN ListSkills(<<>>) ELSE loaded
    IN
    /\ IF Lower(skill) \in LowerSet(skills.keys)
       THEN /\ out' = OutCall("profile_add_skill", <<u, skill>>, TRUE, 0)
            /\ UNCHANGED skill_store
       ELSE IF skills.kind = "dict"
       THEN /\ out' = OutCall("profile_add_skill", <<u, skill>>, FALSE, 0)
            /\ UNCHANGED skill_store
       ELSE /\ skill_store' = [skill_store EXCEPT ![u] =
                   Committed(loaded, assigned, ListSkills(Append(skills.keys, skill)))]
            /\ out' = OutCall("profile_add_skill", <<u, skill>>, TRUE, 0)
    /\ UNCHANGED <<task, profile, assignments, clock, workers, pc, local, last, workload0,
                   decremented, task_attr, performance_log, recomputed_on, score_before>>
    /\ UNCHANGED orgVars

\* the skills columns the ledger may find: NULL, the column default [], a
\* list the assignment code wrote, a dict initialize_user_skills wrote
InitialSkills ==
    {NoSkills, ListSkills(<<>>), ListSkills(<<"Go">>),
     DictSkills(<<"Go", "Python">>, <<100000, 50000>>)}

InitSkills ==
    /\ task = [t \in Tasks |-> [status |-> "To Do", assignees |-> <<>>]]
    /\ task_attr = [t \in Tasks |-> DefaultTaskAttr(t)]
    /\ workers = 1
    /\ profile = [u \in Users |-> NoProfile]
    /\ assignments = <<>>
    /\ clock = 0
    /\ pc = [p \in Procs |-> "idle"]
    /\ local = [p \in Procs |-> NoLocal]
    /\ last = NoResult
    /\ workload0 = [u \in Users |-> 0]
    /\ decremented = [u \in Users |-> 0]
    /\ performance_log = <<>>
    /\ recomputed_on = [u \in Users |-> NeverRecomputed]
    /\ score_before = [u \in Users |-> -1]
    /\ skill_store \in [Users -> InitialSkills]
    /\ out = NoOut
    /\ role = [u \in Users |-> "Member"]
    /\ predecessors = [t \in Tasks |-> {}]
    /\ jobs = <<>>

NextSkills ==
    \/ \E u \in Users, skill_name \in SkillNames, proficiency \in Proficiencies :
         add_skill(u, skill_name, proficiency)
    \/ \E u \in Users, skill_name \in SkillNames, increment \in Increments :
         increment_skill(u, skill_name, increment)
    \/ \E u \in Users, skill \in SkillNames : profile_add_skill(u, skill)

SpecSkills == InitSkills /\ [][NextSkills]_vars

\* ---------------------------------------------------- RecommendationEngine
\* A component in [0,1] is an integer in 0..10000 (10000 = 1.0); a weight is
\* in twentieths; the priority boost is in hundredths; a recommendation
\* score in [0,100] is an integer in 0..20000000 (200000 = 1 point).  The
\* profiles and tasks of this module make the quotients whole numbers.
\* UserSkillProfile.max_weekly_hours (column default)
MAX_WEEKLY_HOURS == 40
\* the default weights of calculate_recommendation_score, in twentieths
W_SKILL_OVERLAP == 6
W_COMPLETION_TIME == 4
W_SUCCESS_RATE == 4
W_WORKLOAD_FIT == 3
W_EXPERIENCE_MATCH == 3
\* the cap of calculate_priority_boost, in hundredths
MAX_BOOST == 150

Abs(x) == IF x < 0 THEN 0 - x ELSE x
Clamp01(x) == Max(0, Min(10000, x))

\* RecommendationEngine.calculate_skill_overlap
calculate_skill_overlap(u, t) ==
    IF ~profile[u].exists THEN 0
    ELSE IF Len(TaskRequiredSkills(t)) = 0 THEN 5000
    ELSE IF Len(profile[u].skills) = 0 THEN 0
    ELSE (10000 * Cardinality(LowerSet(profile[u].skills) \cap LowerSet(TaskRequiredSkills(t))))
             \div Cardinality(LowerSet(TaskRequiredSkills(t)))

\* `x or default`
OrDefault(x, default) == IF x = 0 THEN default ELSE x

\* RecommendationEngine.calculate_completion_time_similarity
calculate_completion_time_similarity(u, t) ==
    IF ~profile[u].exists THEN 5000
    ELSE LET user_avg_time == OrDefault(profile[u].avg_completion_time, 8)
             estimated_task_time == OrDefault(TaskDifficulty(t), 5)
         IN IF 2 * estimated_task_time < user_avg_time
            THEN Clamp01(7000 + (3000 * estimated_task_time) \div user_avg_time)
            ELSE IF estimated_task_time > 2 * user_avg_time
            THEN Clamp01(7000 - (1000 * estimated_task_time) \div user_avg_time)
            ELSE Clamp01(10000 - (2000 * Abs(user_avg_time - estimated_task_time))
                                     \div user_avg_time)

\* the tasks calculate_success_rate_on_similar_tasks takes for similar to t:
\* other tasks of the project (the tasks of this module share one) whose
\* difficulty is within 2 of t's
SimilarTasks(t) ==
    {x \in Tasks \ {t} :
        /\ TaskDifficulty(x) >= OrDefault(TaskDifficulty(t), 5) - 2
        /\ TaskDifficulty(x) <= OrDefault(TaskDifficulty(t), 5) + 2}

\* RecommendationEngine.calculate_success_rate_on_similar_tasks.  Where it
\* reaches `completed_at <= due_date` (a datetime against a date) the
\* comparison raises and the except branch answers 0.5; where it does not,
\* the count of successes stays 0.
calculate_success_rate_on_similar_tasks(u, t) ==
    LET done == CompletedRows(assignments, u)
        counted == {x \in SimilarTasks(t) : \E i \in done : assignments[i].task_id = x}
    IN IF SimilarTasks(t) = {}
       THEN IF done = {} THEN 5000
            ELSE IF DatedRows(assignments, u) # {} THEN 5000
            ELSE 0
       ELSE IF counted = {} THEN 5000
       ELSE IF \E i \in done : /\ assignments[i].task_id \in counted
                                /\ task_attr[assignments[i].task_id].due_date # 0
       THEN 5000
       ELSE 0

\* RecommendationEngine.calculate_workload_fit (is_overloaded,
\* available_capacity, the utilization bands)
calculate_workload_fit(u, t) ==
    IF ~profile[u].exists THEN 5000
    ELSE IF profile[u].current_workload_hours >= MAX_WEEKLY_HOURS THEN 0
    ELSE LET available_capacity == Max(0, MAX_WEEKLY_HOURS - profile[u].current_workload_hours)
             estimated_task_time == OrDefault(TaskDifficulty(t), 5)
         IN IF estimated_task_time <= available_capacity
            THEN IF /\ 2 * estimated_task_time >= available_capacity
                    /\ 10 * estimated_task_time <= 8 * available_capacity
                 THEN 10000
                 ELSE IF 2 * estimated_task_time < available_capacity THEN 7000
                 ELSE 9000
            ELSE 0

\* RecommendationEngine.calculate_experience_match
calculate_experience_match(u, t) ==
    IF ~profile[u].exists THEN 5000
    ELSE LET user_exp == OrDefault(profile[u].experience_level, 5)
             task_diff == OrDefault(TaskDifficulty(t), 5)
         IN IF 2 * task_diff < user_exp
            THEN Clamp01(6000 + (4000 * task_diff) \div user_exp)
            ELSE IF 2 * task_diff > 3 * user_exp
            THEN Clamp01(13000 - (2000 * task_diff) \div user_exp)
            ELSE Clamp01(10000 - (1000 * Abs(user_exp - task_diff)) \div user_exp)

\* RecommendationEngine.calculate_priority_boost, in hundredths; today is
\* datetime.utcnow().date()
calculate_priority_boost(t, today) ==
    LET priority == task_attr[t].priority
        boost == CASE priority \in {"low", "Low"} -> 80
                   [] priority \in {"medium", "Medium"} -> 100
                   [] priority \in {"high", "High"} -> 130
                   [] OTHER -> 100
    IN IF task_attr[t].due_date # 0 /\ task_attr[t].due_date < today
       THEN Min((boost * 12) \div 10, MAX_BOOST)
       ELSE Min(boost, MAX_BOOST)

\* RecommendationEngine.calculate_recommendation_score with the default
\* weights: max(0, min(100, score * 100))
calculate_recommendation_score(u, t, today) ==
    Max(0, Min(20000000,
        (W_SKILL_OVERLAP * calculate_skill_overlap(u, t)
         + W_COMPLETION_TIME * calculate_completion_time_similarity(u, t)
         + W_SUCCESS_RATE * calculate_success_rate_on_similar_tasks(u, t)
         + W_WORKLOAD_FIT * calculate_workload_fit(u, t)
         + W_EXPERIENCE_MATCH * calculate_experience_match(u, t))
        * calculate_priority_boost(t, today)))

\* the tasks the query of recommend_tasks_for_user returns: status "To Do" or
\* "Pending", the user not among the assignees
AvailableTasks(u) ==
    {t \in Tasks : /\ task[t].status \in {"To Do", "Pending"}
                   /\ \A i \in 1..Len(task[t].assignees) : task[t].assignees[i] # u}

\* x put into a list sorted by descending recommendation_score, behind every
\* entry whose score is not lower
InsertByRecommendation(sorted, x) ==
    LET ahead == {i \in 1..Len(sorted) :
                     sorted[i].recommendation_score >= x.recommendation_score}
        k == Cardinality(ahead)
    IN SubSeq(sorted, 1, k) \o <<x>> \o SubSeq(sorted, k + 1, Len(sorted))

\* task_scores.sort(key=lambda x: x["recommendation_score"], reverse=True):
\* stable, entries of equal score keep the order they were appended in
RECURSIVE SortByRecommendation(_)
SortByRecommendation(task_scores) ==
    IF task_scores = <<>> THEN <<>>
    ELSE InsertByRecommendation(
             SortByRecommendation(SubSeq(task_scores, 1, Len(task_scores) - 1)),
             task_scores[Len(task_scores)])

\* the list recommend_tasks_for_user returns for the tasks as fetched:
\* the entries with a positive score, sorted, cut at top_n
Recommendations(u, top_n, available_tasks, today) ==
    LET scored == [i \in 1..Len(available_tasks) |->
                      [task_id |-> available_tasks[i],
                       recommendation_score |->
                           calculate_recommendation_score(u, available_tasks[i], today)]]
        task_scores == SelectSeq(scored, LAMBDA x : x.recommendation_score > 0)
        sorted == SortByRecommendation(task_scores)
    IN SubSeq(sorted, 1, Min(top_n, Len(sorted)))

\* GET /recommendations/tasks?top_n=N: RecommendationEngine.recommend_tasks_for_user.
\* available_tasks is the result of query.all(), in the order the store
\* returns it (the query has no ORDER BY).
recommend_tasks_for_user(u, top_n, available_tasks) ==
    /\ \A p \in Procs : pc[p] = "idle"
    /\ out' = [NoOut EXCEPT !.op = "recommend", !.args = <<u, top_n>>,
                            !.items = Recommendations(u, top_n, available_tasks, clock)]
    /\ UNCHANGED <<task, profile, assignments, clock, workers, pc, local, last, workload0,
                   decremented, task_attr, performance_log, recomputed_on, score_before,
                   skill_store>>
    /\ UNCHANGED orgVars

\* the numbers of recommendations a request may ask for
TopNs == {1, 2}
\* the profiles and tasks the recommendation store starts with
RecommendRows == {Row(<<"Go">>, 4, 50, 3), Row(<<"GO", "kubernetes", "Python">>, 4, 80, 0)}
RecommendTaskAttrs ==
    {TaskAttr(5, 3, "Normal"), TaskAttr(5, 1, "Normal"), TaskAttr(5, 0, "High"),
     TaskAttr(1, 3, "Low")}

InitRecommend ==
    /\ task = [t \in Tasks |-> [status |-> "To Do", assignees |-> <<>>]]
    /\ task_attr \in [Tasks -> RecommendTaskAttrs]
    /\ workers = 1
    /\ profile \in [Users -> RecommendRows]
    /\ assignments = <<>>
    /\ clock = MaxClock
    /\ pc = [p \in Procs |-> "idle"]
    /\ local = [p \in Procs |-> NoLocal]
    /\ last = NoResult
    /\ workload0 = [u \in Users |-> profile[u].current_workload_hours]
    /\ decremented = [u \in Users |-> 0]
    /\ InitExt

NextRecommend ==
    \/ \E u \in Users, top_n \in TopNs : \E available_tasks \in Orders(AvailableTasks(u)) :
         recommend_tasks_for_user(u, top_n, available_tasks)
    \/ \E p \in Procs, t \in Tasks : \E users \in Orders(Users) :
         AutoAssignRead(p, t, "hybrid", users)
    \/ \E p \in Procs : AssignCommit(p)

SpecRecommend == InitRecommend /\ [][NextRecommend]_vars

\* ------------------------------------------------- claims on the feedback
\* the log entries of user u, as indexes into performance_log
LogsOf(u) == {k \in 1..Len(performance_log) : performance_log[k].user_id = u}
\* the entry of u appended last (0 when there is none)
LatestLogOf(u) == IF LogsOf(u) = {} THEN 0 ELSE CHOOSE k \in LogsOf(u) : \A j \in LogsOf(u) : j <= k

C12_RerunEndsAsUninterrupted ==
    [][\A p \in Procs : \A u \in Users :
          (/\ pc[p] = "pf_log"
           /\ pc'[p] = "idle"
           /\ local[p].user_id = u
           /\ score_before[u] >= 0
           /\ Len(performance_log') = Len(performance_log) + 1)
          => /\ profile'[u].performance_score = local[p].log.performance_score
             /\ performance_log'[Len(performance_log')].score_change
                    = local[p].log.performance_score - score_before[u]]_vars

\* no recomputation is between its two commits
NoFeedbackInProgress == \A p \in Procs : pc[p] # "pf_log"

\* C13: while no feedback operation is in progress, the performance_score
\* cached on the profile of a user who has a PerformanceLog entry equals the
\* performance_score of the user's latest entry.
C13_CacheEqualsLatestRecord ==
    \A u \in Users :
        (NoFeedbackInProgress /\ LatestLogOf(u) # 0)
        => profile[u].performance_score = performance_log[LatestLogOf(u)].performance_score

\* C14: the performance_score of every profile, of every PerformanceLog entry
\* and of every entry built and not yet appended lies in [0, 100].
C14_ScoresWithinRange ==
    /\ \A u \in Users : profile[u].performance_score \in 0..100
    /\ \A k \in 1..Len(performance_log) : performance_log[k].performance_score \in 0..100
    /\ \A p \in Procs : local[p].log.performance_score \in 0..100

\* the clamp has acted: an entry records 100 for a user whose weighted sum
\* over the completed rows is above 100
C14_ClampedAtHundred ==
    \E u \in Users :
        /\ LatestLogOf(u) # 0
        /\ performance_log[LatestLogOf(u)].performance_score = 100
        /\ profile[u].performance_score = 100
        /\ WeightedScore(calculate_on_time_ratio(assignments, u),
                         calculate_skill_accuracy(assignments, u),
                         calculate_difficulty_factor(assignments, u)) > 100

\* C15: a TaskAssignment row, once created, is never removed: the set of the
\* ids in the table only grows.
C15_AssignmentNeverRemoved ==
    [][\A i \in LiveRows(assignments) : i \in LiveRows(assignments')]_vars

\* C16: tasks_completed never decreases: not on a profile from one update to
\* the next, and not from one PerformanceLog entry of a user to the user's
\* next entry.
C16_TasksCompletedNeverDecreases ==
    [][\A u \in Users :
          /\ profile'[u].tasks_completed >= profile[u].tasks_completed
          /\ (LatestLogOf(u) # 0 /\ LatestLogOf(u)' # LatestLogOf(u))
             => performance_log'[LatestLogOf(u)'].tasks_completed
                   >= performance_log[LatestLogOf(u)].tasks_completed]_vars

\* ----------------------------------------------- claims on the skill ledger
\* the proficiency increment_skill reads for a name from the column st
CurrentProficiency(st, name) ==
    IF Falsy(st) \/ st.kind # "dict" THEN 0 ELSE DictGet(st, name, 0)

\* C17: for every proficiency the ledger holds after increments and every
\* increment >= 0, increment_skill returns a value not below the current
\* proficiency, and at most 100 + increment * 0.1 when the current
\* proficiency is 100 or more.
C17_IncrementNeverLowers ==
    [][(out'.op = "increment_skill" /\ out'.ok /\ out'.args[3] >= 0)
       => LET current == CurrentProficiency(skill_store[out'.args[1]], out'.args[2])
          IN /\ out'.value >= current
             /\ current >= 100000 => out'.value <= 100000 + out'.args[3] \div 10]_vars

\* no two entries of the column share a name in lower case
OneEntryPerName(st) ==
    \A i, j \in 1..Len(st.keys) : Lower(st.keys[i]) = Lower(st.keys[j]) => i = j

C19_AccuracyRatioIsSymmetricMin ==
    \A i \in 1..Len(assignments) :
        LET actual == assignments[i].actual_completion_hours
            estimated == assignments[i].estimated_completion_hours
            r == get_accuracy_ratio(actual, estimated)
        IN IF actual = 0 \/ estimated = 0 THEN FracEq(r, Zero)
           ELSE /\ FracEq(r, FracMin(Frac(actual, estimated), Frac(estimated, actual)))
                /\ FracEq(r, get_accuracy_ratio(estimated, actual))
                /\ ~FracLeq(r, Zero)
                /\ FracLeq(r, Frac(1, 1))
                /\ FracEq(r, Frac(1, 1)) <=> actual = estimated

\* ------------------------------------------ claims on the recommendations
\* C20: the list recommend returns for (worker, N) has at most N entries,
\* every entry has a score above 0, the scores do not increase along the
\* list, and of two entries with equal scores the one whose task is due
\* earlier comes first, the one with the lower task id when the due dates
\* are the same.
C20_TopNPositiveDescendingTiesByDueDateThenId ==
    out.op = "recommend" =>
        /\ Len(out.items) <= out.args[2]
        /\ \A i \in 1..Len(out.items) : out.items[i].recommendation_score > 0
        /\ \A i, j \in 1..Len(out.items) :
              i < j =>
                /\ out.items[i].recommendation_score >= out.items[j].recommendation_score
                /\ out.items[i].recommendation_score = out.items[j].recommendation_score
                   => LET di == task_attr[out.items[i].task_id].due_date
                          dj == task_attr[out.items[j].task_id].due_date
                      IN IF di # 0 /\ dj # 0 /\ di # dj THEN di < dj
                         ELSE IF di = dj THEN out.items[i].task_id < out.items[j].task_id
                         ELSE TRUE

\* -------------------------------------------------------- assignment paths
\* AssignmentService.find_best_user_for_task(task_id), which
\* TaskWorkflow.auto_assign_task calls and no source file defines: the user
\* the coordinator picks for the task (the best-scored user that passes the
\* skill floor), 0 for None
find_best_user_for_task(t, users) ==
    IF KeptScores(t, "hybrid", users) = <<>> THEN 0
    ELSE BestUserData(t, "hybrid", users).user_id

\* the row TaskWorkflow.auto_assign_task inserts: the task, the user and
\* assignment_status = "assigned"; every other column at its default
WorkflowAssignment(t, u) ==
    [task_id |-> t, assigned_user_id |-> u, skill_match_score |-> 0,
     estimated_completion_hours |-> 0, actual_completion_hours |-> 0,
     assignment_status |-> "assigned", completed_at |-> 0, reassigned_at |-> 0,
     reassignment_reason |-> "none"]

\* TaskWorkflow.auto_assign_task(task_id) (POST /integration/tasks/create,
\* through create_and_assign_task): the task lookup, the best user, the
\* insert and its commit.  Neither task.assignees nor task.status is written.
workflow_auto_assign_task(p, t, users) ==
    LET best_user_id == find_best_user_for_task(t, users) IN
    /\ pc[p] = "idle"
    /\ p <= workers
    /\ Len(assignments) + PendingInserts < MaxAssignments
    /\ IF t \notin Tasks \/ best_user_id = 0
       THEN /\ out' = OutCall("workflow_auto_assign", <<t>>, FALSE, 0)
            /\ UNCHANGED assignments
       ELSE /\ assignments' = Append(assignments, WorkflowAssignment(t, best_user_id))
            /\ out' = OutCall("workflow_auto_assign", <<t>>, TRUE, best_user_id)
    /\ UNCHANGED <<task, profile, clock, workers, pc, local, last, workload0, decremented,
                   task_attr, performance_log, recomputed_on, score_before, skill_store>>
    /\ UNCHANGED orgVars

\* the profiles the store holds where the assignment paths are compared
PathRows == {Row(<<"Go">>, 4, 50, 3), Row(<<"GO", "kubernetes", "Python">>, 4, 80, 0)}

InitPaths ==
    /\ task = [t \in Tasks |-> [status |-> "To Do", assignees |-> <<>>]]
    /\ task_attr = [t \in Tasks |-> DefaultTaskAttr(t)]
    /\ workers = 1
    /\ profile \in [Users -> PathRows]
    /\ assignments = <<>>
    /\ clock = 0
    /\ pc = [p \in Procs |-> "idle"]
    /\ local = [p \in Procs |-> NoLocal]
    /\ last = NoResult
    /\ workload0 = [u \in Users |-> profile[u].current_workload_hours]
    /\ decremented = [u \in Users |-> 0]
    /\ InitExt

NextPaths ==
    \/ \E p \in Procs, t \in Tasks \cup {UnknownTask}, org \in Orgs :
         \E users \in Orders(OrgMembers(org)) : AutoAssignRead(p, t, "hybrid", users)
    \/ \E p \in Procs, t \in Tasks, reason \in Reasons :
         \E users \in Orders(Users) : ReassignRead(p, t, reason, users)
    \/ \E p \in Procs : AssignCommit(p)
    \/ \E p \in Procs, t \in Tasks \cup {UnknownTask} :
         \E users \in Orders(Users) : workflow_auto_assign_task(p, t, users)
    \/ \E u \in Users, top_n \in TopNs : \E available_tasks \in Orders(AvailableTasks(u)) :
         recommend_tasks_for_user(u, top_n, available_tasks)
    \/ \E p \in Procs, id \in 1..MaxAssignments, actor \in Users, h \in HoursGiven :
         CompleteAssignment(p, id, actor, h)

SpecPaths == InitPaths /\ [][NextPaths]_vars

\* -------------------------------------------------------- background jobs
\* @celery_app.task(bind=True, max_retries=3)
MAX_RETRIES == 3
\* the most jobs the queue of the model takes
MaxJobs == 2

\* the countdown each job hands to self.retry, in seconds:
\* assign_next_task_for_user 60 * (2 ** self.request.retries),
\* update_user_performance_metrics 60
RetryCountdown(job) ==
    IF job.name = "assign_next_task_for_user" THEN 60 * (2 ^ job.retries) ELSE 60

\* raise self.retry(exc=exc, countdown=...): celery re-queues the job with
\* retries + 1 and the countdown; once retries + 1 would pass max_retries the
\* exception is raised instead and the job ends in state FAILURE
Retry(job) ==
    IF job.retries + 1 > MAX_RETRIES THEN [job EXCEPT !.state = "FAILURE"]
    ELSE [job EXCEPT !.retries = @ + 1, !.countdown = RetryCountdown(job), !.state = "RETRY"]

\* A worker runs job k.  store_fails: a query of the body raises (a transient
\* failure of the store).  When the store answers,
\* assign_next_task_for_user asks get_assignment_recommendations for
\* task_id=None, gets [] and returns "No suitable tasks available";
\* update_user_performance_metrics returns a failure for a missing row and
\* otherwise raises on `completed_at <= task.due_date` (a datetime against a
\* date or None).  Every exception goes to the except branch, which retries;
\* a body that returns ends the job in state SUCCESS.  No run writes to the
\* store.
RunJob(k, store_fails) ==
    LET body_raises(job) ==
            /\ job.name = "update_user_performance_metrics"
            /\ job.assignment_id \in LiveRows(assignments)
    IN
    /\ k \in 1..Len(jobs)
    /\ jobs[k].state \in {"PENDING", "RETRY"}
    /\ jobs' = [jobs EXCEPT ![k] =
           IF store_fails \/ body_raises(@) THEN Retry(@) ELSE [@ EXCEPT !.state = "SUCCESS"]]
    /\ UNCHANGED <<task, profile, assignments, clock, workers, pc, local, last, workload0,
                   decremented, task_attr, performance_log, recomputed_on, score_before,
                   skill_store, out, role, predecessors>>

\* celery_app.find_and_assign_tasks_for_available_users(organization_id):
\* one assign_next_task_for_user.delay(user.id) per user, in fetch order,
\* that has a profile, is available and is not overloaded
\* (current_workload_hours >= max_weekly_hours); it counts the jobs it has
\* queued and does not wait for them
find_and_assign_tasks_for_available_users(users) ==
    LET is_overloaded(sp) == sp.current_workload_hours >= MAX_WEEKLY_HOURS
        kept == SelectSeq(users, LAMBDA u : /\ profile[u].exists
                                            /\ profile[u].is_available
                                            /\ ~is_overloaded(profile[u]))
    IN
    /\ Len(jobs) + Len(users) <= MaxJobs
    /\ jobs' = jobs \o [i \in 1..Len(kept) |-> Job("assign_next_task_for_user", kept[i], 0)]
    /\ out' = OutCall("find_and_assign", <<>>, TRUE, Len(kept))
    /\ UNCHANGED <<task, profile, assignments, clock, workers, pc, local, last, workload0,
                   decremented, task_attr, performance_log, recomputed_on, score_before,
                   skill_store, role, predecessors>>

\* the profiles of the store the jobs run on: available, unavailable, and
\* loaded to the weekly limit
JobRows ==
    {Row(<<"GO", "kubernetes", "Python">>, 4, 80, 3),
     [Row(<<"GO", "kubernetes", "Python">>, 4, 80, 0) EXCEPT !.is_available = FALSE],
     Row(<<"GO", "kubernetes", "Python">>, 4, 80, 40)}

InitJobs ==
    /\ task = [t \in Tasks |-> [status |-> "To Do", assignees |-> <<>>]]
    /\ task_attr = [t \in Tasks |-> DefaultTaskAttr(t)]
    /\ workers = 1
    /\ profile \in [Users -> JobRows]
    /\ assignments = <<>>
    /\ clock = MaxClock - 1
    /\ pc = [p \in Procs |-> "idle"]
    /\ local = [p \in Procs |-> NoLocal]
    /\ last = NoResult
    /\ workload0 = [u \in Users |-> profile[u].current_workload_hours]
    /\ decremented = [u \in Users |-> 0]
    /\ InitExt

NextJobs ==
    \/ \E p \in Procs, t \in Tasks : \E users \in Orders(Users) :
         AutoAssignRead(p, t, "hybrid", users)
    \/ \E p \in Procs : AssignCommit(p)
    \/ \E p \in Procs, t \in Tasks, actor \in Users, h \in HoursGiven :
         CompleteTaskStatus(p, t, actor, h)
    \/ \E p \in Procs, id \in 0..MaxAssignments : OnTaskCompletedMark(p, id)
    \/ \E p \in Procs : OnTaskCompletedWrite(p)
    \/ \E org \in Orgs : \E users \in Orders(OrgMembers(org)) :
         find_and_assign_tasks_for_available_users(users)
    \/ \E k \in 1..MaxJobs, store_fails \in BOOLEAN : RunJob(k, store_fails)

SpecJobs == InitJobs /\ [][NextJobs]_vars

\* ------------------------------------------------------ scoring components
\* the static methods of AssignmentMetrics, by name
Components ==
    {"calculate_skill_match", "calculate_workload_score", "calculate_experience_score",
     "calculate_performance_score", "calculate_difficulty_adjustment",
     "calculate_completion_time_estimate"}

\* whether the call raises: the divisions of the components are Python
\* float divisions, which raise ZeroDivisionError on a zero divisor.
\*   calculate_workload_score:  current_hours / max_hours, behind
\*                              `if current_hours >= max_hours: return 0.0`
\*   calculate_difficulty_adjustment:  task_difficulty / user_experience
\*   calculate_completion_time_estimate:  1.0 / (user_experience / 5.0), behind
\*                              `if user_avg_completion_time <= 0: return ...`
\*   calculate_experience_score:  experience_level / max_level, behind
\*                              `if experience_level <= 0: return 0.0`
\* calculate_skill_match divides by the size of a set that is not empty;
\* calculate_performance_score divides by 100.0.
ComponentRaises(name, args) ==
    CASE name = "calculate_workload_score" -> args[1] < args[2] /\ args[2] = 0
      [] name = "calculate_experience_score" -> args[1] > 0 /\ args[2] = 0
      [] name = "calculate_difficulty_adjustment" -> args[2] = 0
      [] name = "calculate_completion_time_estimate" -> args[2] > 0 /\ args[3] = 0
      [] OTHER -> FALSE

\* what the call returns when it does not raise (scores in score units,
\* the adjustment in tenths, the estimate in hours)
ComponentValue(name, args) ==
    CASE name = "calculate_skill_match" -> calculate_skill_match(args[1], args[2])
      [] name = "calculate_workload_score" -> calculate_workload_score(args[1], args[2])
      [] name = "calculate_experience_score" -> calculate_experience_score(args[1], args[2])
      [] name = "calculate_performance_score" -> calculate_performance_score(args[1])
      [] name = "calculate_difficulty_adjustment" ->
             calculate_difficulty_adjustment(args[1], args[2])
      [] OTHER -> calculate_completion_time_estimate(args[1], args[2], args[3])

\* the arguments the components are called with: skill lists (empty ones
\* among them), hours against a limit of 40 and of 0, experience levels from
\* 0, performance scores, difficulties 1..10, average completion times
ComponentArgs(name) ==
    CASE name = "calculate_skill_match" ->
             {<<us, rs>> : us \in {<<>>, <<"Go">>, <<"GO", "kubernetes", "Python">>},
                           rs \in {<<>>, <<"Go">>, <<"Go", "Kubernetes">>}}
      [] name = "calculate_workload_score" ->
             {<<h, m>> : h \in {0, 3, 40, 48}, m \in {0, DEFAULT_MAX_HOURS}}
      [] name = "calculate_experience_score" ->
             {<<e, DEFAULT_MAX_LEVEL>> : e \in {0, 1, 2, 4, 8, 10, 12}}
      [] name = "calculate_performance_score" -> {<<q>> : q \in {0, 50, 100, 150}}
      [] name = "calculate_difficulty_adjustment" ->
             {<<d, e>> : d \in 1..10, e \in {0, 1, 2, 4, 8}}
      [] OTHER -> {<<d, a, e>> : d \in 1..10, a \in {0, 8}, e \in {0, 1, 2, 4, 8}}

\* one call of a component: out holds the call, whether it returned
\* (ok = FALSE: it raised) and what it returned
call_component(name, args) ==
    /\ out' = IF ComponentRaises(name, args) THEN OutCall(name, args, FALSE, 0)
              ELSE OutCall(name, args, TRUE, ComponentValue(name, args))
    /\ UNCHANGED <<task, profile, assignments, clock, workers, pc, local, last, workload0,
                   decremented, task_attr, performance_log, recomputed_on, score_before,
                   skill_store>>
    /\ UNCHANGED orgVars

NextScoring ==
    \E name \in Components : \E args \in ComponentArgs(name) : call_component(name, args)

SpecScoring == InitSkills /\ [][NextScoring]_vars

\* ------------------------------------------------------------ task status
\* PUT /automation/tasks/<id>/status (automation.routes.update_task_status):
\* 404, the role check (Admin, Manager or an assignee), the normalised
\* status written and committed; for "Completed"
\* TaskAutomationEngine.on_task_status_changed hands over to
\* on_task_completed(task_id), without hours.
update_task_status(p, t, actor, status) ==
    LET new_status ==
            CASE status \in {"done", "Done", "completed", "Completed"} -> "Completed"
              [] status \in {"in progress", "In Progress", "in_progress"} -> "In Progress"
              [] OTHER -> status
        done(cause, http) ==
            /\ last' = Answer("update_task_status", cause, "error", http)
            /\ UNCHANGED <<task, pc, local>>
    IN
    /\ pc[p] = "idle"
    /\ p <= workers
    /\ clock + PendingTicks < MaxClock
    /\ IF t \notin Tasks THEN done("task_not_found", 404)
       ELSE IF /\ role[actor] \notin {"Admin", "Manager"}
               /\ \A i \in 1..Len(task[t].assignees) : task[t].assignees[i] # actor
       THEN done("forbidden", 403)
       ELSE /\ task' = [task EXCEPT ![t].status = new_status]
            /\ IF new_status = "Completed"
               THEN /\ pc' = [pc EXCEPT ![p] = "ct_status"]
                    /\ local' = [local EXCEPT ![p] =
                           [NoLocal EXCEPT !.task_id = t, !.actor = actor]]
                    /\ UNCHANGED last
               ELSE /\ last' = Answer("update_task_status", "updated", "success", 200)
                    /\ UNCHANGED <<pc, local>>
    /\ UNCHANGED <<profile, assignments, clock, workers, workload0, decremented>>
    /\ UNCHANGED extVars

\* Task.can_start
can_start(t) == \A q \in predecessors[t] : task[q].status = "Completed"

\* POST /tasks/<id> with the status form (tasks.routes.task_detail):
\* get_or_404; the form takes "To Do", "In Progress" and "Completed";
\* "Completed" from a user who is neither an assignee nor Admin or Manager is
\* turned away; then `if new_status in ('In Progress', 'To Do', 'Completed')
\* or (new_status == 'In Progress' and task.can_start())` writes the status.
\* (The workload it adjusts afterwards is User.current_workload, not a column
\* of this state.)
task_detail(p, t, actor, new_status) ==
    LET is_assignee == \E i \in 1..Len(task[t].assignees) : task[t].assignees[i] = actor
        done(cause, ret, http) ==
            /\ last' = Answer("task_detail", cause, ret, http)
    IN
    /\ pc[p] = "idle"
    /\ p <= workers
    /\ IF t \notin Tasks THEN done("task_not_found", "abort", 404) /\ UNCHANGED task
       ELSE IF new_status = "Completed" /\ ~(is_assignee \/ role[actor] \in {"Admin", "Manager"})
       THEN done("not_permitted", "redirect", 302) /\ UNCHANGED task
       ELSE IF \/ new_status \in {"In Progress", "To Do", "Completed"}
               \/ (new_status = "In Progress" /\ can_start(t))
       THEN /\ task' = [task EXCEPT ![t].status = new_status]
            /\ done("updated", "redirect", 302)
       ELSE done("cannot_start", "redirect", 302) /\ UNCHANGED task
    /\ UNCHANGED <<profile, assignments, clock, workers, pc, local, workload0, decremented>>
    /\ UNCHANGED extVars

\* the store the status requests run on: a manager or members, a task that
\* depends on the other or on none
InitStatus ==
    /\ task = [t \in Tasks |-> [status |-> "To Do", assignees |-> <<>>]]
    /\ task_attr = [t \in Tasks |-> DefaultTaskAttr(t)]
    /\ workers = 1
    /\ profile = [u \in Users |-> Row(<<"GO", "kubernetes", "Python">>, 4, 80, 3)]
    /\ assignments = <<>>
    /\ clock = 0
    /\ pc = [p \in Procs |-> "idle"]
    /\ local = [p \in Procs |-> NoLocal]
    /\ last = NoResult
    /\ workload0 = [u \in Users |-> profile[u].current_workload_hours]
    /\ decremented = [u \in Users |-> 0]
    /\ performance_log = <<>>
    /\ recomputed_on = [u \in Users |-> NeverRecomputed]
    /\ score_before = [u \in Users |-> -1]
    /\ skill_store = [u \in Users |-> NoSkills]
    /\ out = NoOut
    /\ role \in [Users -> {"Member", "Manager"}]
    /\ predecessors \in {[t \in Tasks |-> {}], [t \in Tasks |-> IF t = 2 THEN {1} ELSE {}]}
    /\ jobs = <<>>

NextStatus ==
    \/ \E p \in Procs, t \in Tasks : \E users \in Orders(Users) :
         AutoAssignRead(p, t, "hybrid", users)
    \/ \E p \in Procs : AssignCommit(p)
    \/ \E p \in Procs, t \in Tasks \cup {UnknownTask}, actor \in Users, h \in HoursGiven :
         CompleteTaskStatus(p, t, actor, h)
    \/ \E p \in Procs, id \in 0..MaxAssignments : OnTaskCompletedMark(p, id)
    \/ \E p \in Procs : OnTaskCompletedWrite(p)
    \/ \E p \in Procs, t \in Tasks \cup {UnknownTask}, actor \in Users,
          status \in {"To Do", "in_progress", "done"} :
         update_task_status(p, t, actor, status)
    \/ \E p \in Procs, t \in Tasks \cup {UnknownTask}, actor \in Users,
          new_status \in {"To Do", "In Progress", "Completed"} :
         task_detail(p, t, actor, new_status)

SpecStatus == InitStatus /\ [][NextStatus]_vars

\* ------------------------------------------------ claims on the assignment paths
\* the rows of user u for task t that are neither completed nor cancelled
HeldAssignments(u, t) ==
    {i \in LiveRows(assignments) :
        /\ assignments[i].task_id = t
        /\ assignments[i].assigned_user_id = u
        /\ assignments[i].assignment_status \notin {"completed", "cancelled"}}

\* C21: every list recommend_tasks_for_user returns for a user holds only
\* tasks that are open ("To Do" or "Pending") and for which the user holds no
\* assignment that is neither completed nor cancelled, whatever assignment
\* paths have run before.
C21_RecommendedOpenAndNotHeld ==
    [][(out' # out /\ out'.op = "recommend")
       => \A k \in 1..Len(out'.items) :
             /\ task[out'.items[k].task_id].status \in {"To Do", "Pending"}
             /\ HeldAssignments(out'.args[1], out'.items[k].task_id) = {}]_vars

\* C22: a job is retried at most MAX_RETRIES (3) times, every retry after
\* the first waits longer than the one before, a job that fails once more
\* after its last retry ends in state FAILURE, a job that has ended never
\* runs again, and the batch job answers with a success whatever becomes of
\* the jobs it has queued.
C22_BoundedRetriesIncreasingBackoff ==
    /\ [](\A k \in 1..Len(jobs) : jobs[k].retries <= MAX_RETRIES)
    /\ [](out.op = "find_and_assign" => out.ok)
    /\ [][\A k \in 1..Len(jobs) :
            /\ jobs[k].state \in {"SUCCESS", "FAILURE"} => jobs'[k] = jobs[k]
            /\ (jobs'[k].retries > jobs[k].retries /\ jobs[k].retries >= 1)
               => jobs'[k].countdown > jobs[k].countdown
            /\ (jobs'[k] # jobs[k] /\ jobs'[k].retries = jobs[k].retries)
               => jobs'[k].state \in {"SUCCESS", "FAILURE"}]_vars

\* C23: every call of a scoring component returns a value: none raises, for
\* any of the arguments, an experience level of 0, a limit of 0 hours and
\* empty skill lists among them.
C23_ComponentsNeverRaise == out.op \in Components => out.ok

\* C24: every TaskAssignment row is inserted with assignment_status
\* "active", the status of every row is always one of active, completed and
\* cancelled, and a status only ever changes from active to completed or
\* from active to cancelled.
C24_StatusLifecycle ==
    /\ [](\A i \in LiveRows(assignments) :
             assignments[i].assignment_status \in {"active", "completed", "cancelled"})
    /\ [][/\ \A i \in 1..Len(assignments') :
                i > Len(assignments) => assignments'[i].assignment_status = "active"
          /\ \A i \in LiveRows(assignments) \cap LiveRows(assignments') :
                assignments'[i].assignment_status # assignments[i].assignment_status
                => /\ assignments[i].assignment_status = "active"
                   /\ assignments'[i].assignment_status \in {"completed", "cancelled"}]_vars

\* C26: when a reassignment of a task that has an assignment succeeds, the
\* user of the new row differs from the user of the row it supersedes.
C26_ReassignPicksAnotherUser ==
    [][\A p \in Procs :
          (/\ pc[p] = "aa_commit"
           /\ pc'[p] = "idle"
           /\ local[p].is_reassign
           /\ local[p].reassign_of # 0)
          => assignments'[Len(assignments')].assigned_user_id
                 # assignments[local[p].reassign_of].assigned_user_id]_vars

\* --------------------------------------------- recommendations for a task
\* top_n of AssignmentService.get_assignment_recommendations and of its route
DEFAULT_TOP_N == 5

\* the ranking without its sort: the score records in fetch order
AssignmentRecommendations_Unsorted(t, strategy, users, top_n) ==
    IF t \notin Tasks THEN <<>>
    ELSE LET user_scores == [i \in 1..Len(users) |-> calculate_user_score(users[i], t, strategy)]
         IN SubSeq(user_scores, 1, Min(top_n, Len(user_scores)))

\* what AssignmentService.get_assignment_recommendations returns: [] for an
\* unknown task; else the score record of every fetched user (no skill
\* floor), sorted by overall_score with the same stable sort, cut at top_n
AssignmentRecommendations(t, strategy, users, top_n) ==
    IF t \notin Tasks THEN <<>>
    ELSE LET user_scores == [i \in 1..Len(users) |-> calculate_user_score(users[i], t, strategy)]
             sorted == SortByOverallScore(user_scores)
         IN SubSeq(sorted, 1, Min(top_n, Len(sorted)))

\* GET /assignment/tasks/<id>/recommendations?top_n=N, for a service built
\* with the given strategy; users is the result of the user query
get_assignment_recommendations(t, strategy, users, top_n) ==
    /\ \A p \in Procs : pc[p] = "idle"
    /\ out' = [NoOut EXCEPT !.op = "get_assignment_recommendations", !.args = <<t, top_n>>,
                            !.items = AssignmentRecommendations(t, strategy, users, top_n)]
    /\ UNCHANGED <<task, profile, assignments, clock, workers, pc, local, last, workload0,
                   decremented, task_attr, performance_log, recomputed_on, score_before,
                   skill_store>>
    /\ UNCHANGED orgVars

\* the store the two paths are compared on: users without a matching skill,
\* with half of the skills of task 1, and with all of them
InitAgree ==
    /\ task = [t \in Tasks |-> [status |-> "To Do", assignees |-> <<>>]]
    /\ task_attr = [t \in Tasks |-> DefaultTaskAttr(t)]
    /\ workers = 1
    /\ profile \in [Users -> {Row(<<>>, 1, 50, 0), Row(<<"Go">>, 4, 50, 3),
                              Row(<<"GO", "kubernetes", "Python">>, 4, 80, 0)}]
    /\ assignments = <<>>
    /\ clock = 0
    /\ pc = [p \in Procs |-> "idle"]
    /\ local = [p \in Procs |-> NoLocal]
    /\ last = NoResult
    /\ workload0 = [u \in Users |-> profile[u].current_workload_hours]
    /\ decremented = [u \in Users |-> 0]
    /\ InitExt

NextAgree ==
    \/ \E p \in Procs, t \in Tasks \cup {UnknownTask}, org \in Orgs,
          strategy \in {"hybrid", "workload_balance"} :
         \E users \in Orders(OrgMembers(org)) : AutoAssignRead(p, t, strategy, users)
    \/ \E p \in Procs : AssignCommit(p)
    \/ \E t \in Tasks \cup {UnknownTask}, org \in Orgs,
          strategy \in {"hybrid", "workload_balance"}, top_n \in {1, DEFAULT_TOP_N} :
         \E users \in Orders(OrgMembers(org)) :
            get_assignment_recommendations(t, strategy, users, top_n)
    \/ \E p \in Procs, id \in 1..MaxAssignments, actor \in Users, h \in HoursGiven :
         CompleteAssignment(p, id, actor, h)

SpecAgree == InitAgree /\ [][NextAgree]_vars

\* ------------------------------------------------ claims on the task status
\* user u is an assignee of task t or holds the Admin or Manager role
Entitled(u, t) ==
    \/ role[u] \in {"Admin", "Manager"}
    \/ \E i \in 1..Len(task[t].assignees) : task[t].assignees[i] = u

\* C25: through POST /automation/tasks/<id>/complete and PUT
\* /automation/tasks/<id>/status only an assignee of the task or an Admin or
\* Manager sets a task to "Completed", and a request answered 403 leaves
\* tasks, assignments and profiles as they were.
C25_OnlyEntitledUsersComplete ==
    [][/\ \A p \in Procs :
            (pc[p] = "idle" /\ pc'[p] = "ct_status")
            => Entitled(local'[p].actor, local'[p].task_id)
       /\ (last' # last /\ last'.http = 403) => UNCHANGED <<task, assignments, profile>>]_vars

\* C27: a step that moves a task to "In Progress" finds all of the task's
\* predecessors "Completed" (Task.can_start), whether the step is a status
\* update, an assignment or an automation step.
C27_InProgressOnlyWhenCanStart ==
    [][\A t \in Tasks :
          (task'[t].status = "In Progress" /\ task[t].status # "In Progress")
          => can_start(t)]_vars

\* the user of the first entry of a ranking whose skill match reaches the
\* floor of 0.5, 0 when no entry does
FirstQualified(ranking) ==
    LET S == {i \in 1..Len(ranking) : ranking[i].skill_match >= 300}
    IN IF S = {} THEN 0 ELSE ranking[CHOOSE i \in S : \A j \in S : i <= j].user_id

C29_AssignedUserIsAvailable ==
    [][Len(assignments') > Len(assignments)
       => profile[assignments'[Len(assignments')].assigned_user_id].is_available]_vars

\* C30: once the request that completed it has ended, a task whose status is
\* "Completed" has no TaskAssignment row with assignment_status "active".
C30_CompletedTaskHasNoActiveAssignment ==
    (\A p \in Procs : pc[p] = "idle")
    => \A t \in Tasks : task[t].status = "Completed" => ActiveAssignmentsOf(t) = {}
====
